---- MODULE Spec2Model ----
(***************************************************************************)
(* node-ws-gameserver: the room/session engine.                            *)
(*                                                                         *)
(* Two builds of the server live in the repository.  The relay build is    *)
(* the router of src/unnamed/part_004 with the Room of src/Dockerfile      *)
(* (lines 37-189) and the codec of src/src/protocol.ts; the authoritative  *)
(* build is the router of src/src/index.ts with the Room of                *)
(* src/unnamed/part_000 and the codec of src/unnamed/part_001.  Both use   *)
(* the RateLimiter of src/src/rate-limit.ts.  The variable mode says which *)
(* build runs.                                                             *)
(***************************************************************************)
EXTENDS Integers, Sequences, FiniteSets, TLC

\* ------------------------------------------------------------------ bounds

\* Connections the server accepts during a run; client ids are 1..MaxClients.
MaxClients == 3
\* Connections accepted in the runs that give each client more messages.
FewClients == 2
\* MAX_PLAYERS_PER_ROOM, a configuration value (default 50).
MaxPlayersPerRoom == 2
\* MAX_MESSAGES_PER_SECOND, a configuration value (default 60): the two values run.
LowRate == 1
HighRate == 2
\* The clock (Date.now(), in ms) runs from 0 to MaxNow in the timed router runs.
MaxNow == 1001
\* The clock runs from 0 to MaxNowRL in the rate limiter's own runs.
MaxNowRL == 2001
\* A room's messageCount is followed up to this value.
MaxCount == 2
\* The clock runs from 0 to MaxNowMetrics in the runs that follow the metrics.
MaxNowMetrics == 3000

\* ------------------------------------------------------- program constants

WindowMs == 1000
PROTOCOL_VERSION == 1
DisplayNameMax == 32
ChatMax == 500
\* The period of the relay router's metrics interval, and the least time
\* between two recomputations of a room's messagesPerSecond.
RefreshMs == 1000

Clients == 1..MaxClients
RoomIds == {"lobby", "arena"}
\* The amounts the clock advances by between two events of a router run.
ClockSteps == {WindowMs + 1}
\* The amounts the clock advances by between two calls of the rate limiter.
RLSteps == {WindowMs - 1, WindowMs, WindowMs + 1}

\* The configurations run: the server's maxPlayers (MAX_PLAYERS_PER_ROOM) and
\* maxMessages (MAX_MESSAGES_PER_SECOND), and the run's size: the connections
\* accepted (conns) and how far the clock runs (maxNow).
Crowded == [maxPlayers |-> MaxPlayersPerRoom, maxMessages |-> LowRate,
            conns |-> MaxClients, maxNow |-> 0]

Chatty == [maxPlayers |-> MaxPlayersPerRoom, maxMessages |-> HighRate,
           conns |-> FewClients, maxNow |-> 0]

Timed == [maxPlayers |-> MaxPlayersPerRoom, maxMessages |-> LowRate,
          conns |-> FewClients - 1, maxNow |-> MaxNow]

LimiterOnly == [maxPlayers |-> MaxPlayersPerRoom, maxMessages |-> HighRate,
                conns |-> FewClients, maxNow |-> MaxNowRL]

VARIABLES
    mode,       \* "relay" | "auth": the build that runs; "limiter": the RateLimiter alone
    config,     \* the configuration of the run
    now,        \* Date.now()
    windows,    \* RateLimiter.windows: client id -> timestamps (a Map: its domain varies)
    admitted,   \* history: per client, the timestamps of the allow() calls that returned true
    status,     \* per connection: "idle" | "open" | "closing" | "ending" | "closed"
    attached,   \* per connection: the router registered its message/close handlers
    meta,       \* clientMeta: per connection [roomId, joined]
    captured,   \* relay router: the Room object captured at connect (0: none)
    rooms,      \* the registry: room id -> Room object (index into heap), 0 when absent
    heap,       \* every Room object constructed so far, in order of construction
    sent,       \* the ws.send calls of the last handler, in call order
    last,       \* the last handler that ran and what it was given
    crashed,    \* an exception escaped a handler: the process is gone
    keep,       \* per connection: its keepalive interval, isAlive, and the last ping
    written,    \* history: per client, the state of its last updatePlayerState call
    refused,    \* history: per connection, a join frame of it was answered ROOM_FULL
    counted,    \* history: per room id, when a room of that id last counted a message
    view,       \* history: per relay member, what the envelopes it received told it
    due         \* the intervals whose period has ended and whose callback has not
                \* run yet: 0 the metrics interval, o the tick interval of Room o

vars == <<mode, config, now, windows, admitted, status, attached, meta, captured, rooms,
          heap, sent, last, crashed, keep, written, refused, counted, view, due>>

\* ------------------------------------------------------------ RateLimiter

MapSet(m, k, v) == [x \in (DOMAIN m) \cup {k} |-> IF x = k THEN v ELSE m[x]]

MapDel(m, k) == [x \in (DOMAIN m) \ {k} |-> m[x]]

\* while (timestamps.length > 0 && timestamps[0] < cutoff) timestamps.shift()
RECURSIVE DropExpired(_, _)
DropExpired(ts, cutoff) ==
    IF Len(ts) > 0 /\ ts[1] < cutoff THEN DropExpired(Tail(ts), cutoff) ELSE ts

PrunedInclusive(w, c, t) ==
    DropExpired(IF c \in DOMAIN w THEN w[c] ELSE <<>>, t - WindowMs + 1)

\* The client's window as allow() sees it after the expired timestamps are dropped.
Pruned(w, c, t) ==
    DropExpired(IF c \in DOMAIN w THEN w[c] ELSE <<>>, t - WindowMs)

\* allow(clientId): the value returned at time t.
AllowOk(w, c, t) == ~(Len(Pruned(w, c, t)) >= config.maxMessages)

AllowWindowsRecordsAll(w, c, t) == MapSet(w, c, Append(Pruned(w, c, t), t))

\* allow(clientId): the windows it leaves at time t.
AllowWindows(w, c, t) ==
    IF AllowOk(w, c, t)
    THEN MapSet(w, c, Append(Pruned(w, c, t), t))
    ELSE MapSet(w, c, Pruned(w, c, t))

\* remove(clientId)
RemoveWindows(w, c) == MapDel(w, c)

CleanupWindowsByOldest(w, t) ==
    LET live == {c \in DOMAIN w : Len(w[c]) # 0 /\ w[c][1] >= t - WindowMs}
    IN  [c \in live |-> w[c]]

\* cleanup(): drop the expired timestamps of every window, delete the empty ones.
CleanupWindows(w, t) ==
    LET live == {c \in DOMAIN w : Len(DropExpired(w[c], t - WindowMs)) # 0}
    IN  [c \in live |-> DropExpired(w[c], t - WindowMs)]

\* ------------------------------------------------------------------ codec

\* An inbound frame is described by what its bytes decode to: body is
\* "undecodable" (decode throws), "nil", "scalar", "array", "bin" or "map"; for
\* a map, type is its type tag ("absent" when the key is missing, "nonstring"
\* when it is not a string) and arg describes the fields the routers read.
NoFrame == [body |-> "none", type |-> "none", arg |-> "none"]

Frame(b, t, a) == [body |-> b, type |-> t, arg |-> a]

Null == [body |-> "null", type |-> "none", arg |-> "none"]

DecodeRelayArrays(f) == IF f.body \in {"map", "bin", "array"} THEN f ELSE Null

\* decodeMessage of the relay build: null unless the bytes decode to an object
\* that is not an array (a bin decodes to a Uint8Array, which is such an object).
DecodeRelay(f) == IF f.body \in {"map", "bin"} THEN f ELSE Null

\* decodeMessage of the authoritative build: null unless the bytes decode to an
\* object that has the key "type".
DecodeAuth(f) == IF f.body = "map" /\ f.type # "absent" THEN f ELSE Null

\* The frames a client of the relay build sends in the runs.
RelayFrames ==
    { Frame("undecodable", "none", "none"), Frame("map", "move", "none"),
      Frame("map", "hello", "v1"), Frame("map", "hello", "v2"),
      Frame("map", "ping", "nonce"), Frame("map", "ping", "none") }

\* The frames a client of the authoritative build sends in the runs.
AuthFrames ==
    { Frame("undecodable", "none", "none"), Frame("map", "absent", "none"),
      Frame("map", "join", "noname"), Frame("map", "join", "nopayload"),
      Frame("map", "state", "s1"), Frame("map", "state", "s2"),
      Frame("map", "chat", "text"), Frame("map", "ping", "nonce") }

\* The shapes of frame a decoder can be handed: bytes that are no msgpack, the
\* values that are no keyed object, and maps with and without a usable type tag.
WireFrames ==
    { Frame("undecodable", "none", "none"), Frame("nil", "none", "none"),
      Frame("scalar", "none", "none"), Frame("array", "none", "none"),
      Frame("bin", "none", "none"), Frame("map", "absent", "none"),
      Frame("map", "nonstring", "none"), Frame("map", "move", "none"),
      Frame("map", "join", "noname") }

\* A string is its text and its length; slice(0, n) keeps the first n characters.
Str(text, len) == <<text, len>>

Slice(s, n) == <<s[1], IF s[2] < n THEN s[2] ELSE n>>

\* ---------------------------------------------------------------- envelopes

\* Server messages of the relay build (src/src/protocol.ts).
RelayError(code, text) == [type |-> "error", code |-> code, message |-> text]

Welcome(id, peers) ==
    [type |-> "welcome", protocolVersion |-> PROTOCOL_VERSION, playerId |-> id,
     peers |-> peers]

PeerJoined(id) == [type |-> "peer_joined", peerId |-> id]

PeerLeft(id) == [type |-> "peer_left", peerId |-> id]

RelayEnv(from, data) == [type |-> "relay", from |-> from, data |-> data]

Pong(nonce, t) == [type |-> "pong", nonce |-> nonce, serverTime |-> t]

\* Server messages of the authoritative build (src/unnamed/part_001).
AuthError(code, text) ==
    [type |-> "error", payload |-> [code |-> code, message |-> text]]

PlayerJoined(id, name) ==
    [type |-> "player_joined", payload |-> [id |-> id, displayName |-> name]]

PlayerLeft(id) == [type |-> "player_left", payload |-> [id |-> id]]

ChatEnv(id, text) == [type |-> "chat", payload |-> [id |-> id, message |-> text]]

Snapshot(players, t) ==
    [type |-> "snapshot", payload |-> [players |-> players, timestamp |-> t]]

\* One call of ws.send: the connection, the envelope, and whether the
\* connection's readyState was OPEN when the call was made.
Send(c, env, ready) == [to |-> c, env |-> env, ready |-> ready]

\* The record of a handler: op is the event, c its connection, frame the inbound
\* frame, ok what rateLimiter.allow returned, call the Room method the handler
\* called ("none": none) on Room object room, res what Room.join returned, close
\* the code the handler passed to ws.close (0: it did not call ws.close).
NoLast == [op |-> "init", c |-> 0, frame |-> NoFrame, ok |-> TRUE, call |-> "none",
           res |-> "none", room |-> 0, close |-> 0]

\* The text of the ROOM_FULL error: it names the room and its capacity.
FullText(r) == <<"Room is full", r.id, config.maxPlayers>>

\* ws.readyState === WebSocket.OPEN
IsOpen(st, c) == st[c] = "open"

\* ------------------------------------------------------------------- Room

\* new Room(id, ...): no members, no tick timer, the counters at zero.  tick says
\* that tickInterval holds a timer; timers counts the intervals set and not cleared.
NewRoom(id, t) ==
    [id |-> id, members |-> <<>>, tick |-> FALSE, timers |-> 0, messageCount |-> 0,
     lastReset |-> t, messagesPerSecond |-> 0]

\* startTickLoop(): tickInterval = setInterval(...)
StartTickLoop(r) == [r EXCEPT !.tick = TRUE, !.timers = @ + 1]

StopTickLoopBlind(r) == [r EXCEPT !.tick = FALSE, !.timers = @ - 1]

\* stopTickLoop(): if (tickInterval) { clearInterval(tickInterval); tickInterval = null }
StopTickLoop(r) == IF r.tick THEN [r EXCEPT !.tick = FALSE, !.timers = @ - 1] ELSE r

RECURSIVE Ids(_)
Ids(ms) == IF ms = <<>> THEN <<>> ELSE <<Head(ms).id>> \o Ids(Tail(ms))

MemberSet(r) == {r.members[i].id : i \in DOMAIN r.members}

\* get playerCount
PlayerCount(r) == Len(r.members)

IsFullStrict(r) == Len(r.members) > config.maxPlayers

\* get isFull
IsFull(r) == Len(r.members) >= config.maxPlayers

\* Map.set(id, m): replaces the entry of id where it stands, or appends one.
RECURSIVE MembersSet(_, _)
MembersSet(ms, m) ==
    IF ms = <<>> THEN <<m>>
    ELSE IF Head(ms).id = m.id THEN <<m>> \o Tail(ms)
    ELSE <<Head(ms)>> \o MembersSet(Tail(ms), m)

\* Map.delete(id)
RECURSIVE MembersDel(_, _)
MembersDel(ms, id) ==
    IF ms = <<>> THEN <<>>
    ELSE IF Head(ms).id = id THEN Tail(ms)
    ELSE <<Head(ms)>> \o MembersDel(Tail(ms), id)

\* Map.get(id); asked only of a member.
Member(r, id) ==
    r.members[CHOOSE i \in DOMAIN r.members : r.members[i].id = id]

\* broadcast(msg, excludeId): in the Map's order, to every member but
\* excludeId (0: nobody excluded) whose connection is open.
BroadcastEveryone(ms, env, excludeId, st) ==
    LET Reached(c) == c # excludeId /\ IsOpen(st, c)
        ids == SelectSeq([i \in 1..MaxClients |-> i], Reached)
    IN  IF ms = <<>> THEN <<>> ELSE [i \in DOMAIN ids |-> Send(ids[i], env, TRUE)]

RECURSIVE Broadcast(_, _, _, _)
Broadcast(ms, env, excludeId, st) ==
    IF ms = <<>> THEN <<>>
    ELSE (IF Head(ms).id # excludeId /\ IsOpen(st, Head(ms).id)
          THEN <<Send(Head(ms).id, env, TRUE)>> ELSE <<>>)
         \o Broadcast(Tail(ms), env, excludeId, st)

\* Room.send(ws, msg) of the relay build: only to an open connection.
RoomSend(c, env, st) == IF IsOpen(st, c) THEN <<Send(c, env, TRUE)>> ELSE <<>>

RelayJoinLateSnapshot(r, id, st) ==
    IF IsFull(r)
    THEN [room |-> r, ok |-> FALSE,
          sent |-> <<Send(id, RelayError("ROOM_FULL", FullText(r)), IsOpen(st, id))>>]
    ELSE LET r2 == [r EXCEPT !.members = MembersSet(@, [id |-> id])]
         IN  [room |-> r2, ok |-> TRUE,
              sent |-> RoomSend(id, Welcome(id, Ids(r2.members)), st)
                       \o Broadcast(r2.members, PeerJoined(id), id, st)]

RelayJoinFullNotifies(r, id, st) ==
    IF IsFull(r)
    THEN [room |-> r, ok |-> FALSE,
          sent |-> <<Send(id, RelayError("ROOM_FULL", FullText(r)), IsOpen(st, id))>>
                   \o Broadcast(r.members, RelayError("ROOM_FULL", FullText(r)), id, st)]
    ELSE LET r2 == [r EXCEPT !.members = MembersSet(@, [id |-> id])]
         IN  [room |-> r2, ok |-> TRUE,
              sent |-> RoomSend(id, Welcome(id, Ids(r.members)), st)
                       \o Broadcast(r2.members, PeerJoined(id), id, st)]

RelayJoinSilent(r, id, st) ==
    IF IsFull(r)
    THEN [room |-> r, ok |-> FALSE,
          sent |-> <<Send(id, RelayError("ROOM_FULL", FullText(r)), IsOpen(st, id))>>]
    ELSE LET r2 == [r EXCEPT !.members = MembersSet(@, [id |-> id])]
         IN  [room |-> r2, ok |-> TRUE,
              sent |-> RoomSend(id, Welcome(id, Ids(r.members)), st)]

\* Room.join of the relay build.
RelayJoin(r, id, st) ==
    IF IsFull(r)
    THEN [room |-> r, ok |-> FALSE,
          sent |-> <<Send(id, RelayError("ROOM_FULL", FullText(r)), IsOpen(st, id))>>]
    ELSE LET r2 == [r EXCEPT !.members = MembersSet(@, [id |-> id])]
         IN  [room |-> r2, ok |-> TRUE,
              sent |-> RoomSend(id, Welcome(id, Ids(r.members)), st)
                       \o Broadcast(r2.members, PeerJoined(id), id, st)]

NeutralState == [pose |-> "neutral", timestamp |-> -1]

AuthJoinAlwaysStarts(r, id, name, st) ==
    IF IsFull(r)
    THEN [room |-> r, ok |-> FALSE,
          sent |-> <<Send(id, AuthError("ROOM_FULL", FullText(r)), IsOpen(st, id))>>]
    ELSE LET p  == [id |-> id, displayName |-> name, state |-> NeutralState]
             r2 == [r EXCEPT !.members = MembersSet(@, p)]
         IN  [room |-> StartTickLoop(r2),
              ok |-> TRUE,
              sent |-> Broadcast(r2.members, PlayerJoined(id, name), id, st)]

\* Room.join of the authoritative build.
AuthJoin(r, id, name, st) ==
    IF IsFull(r)
    THEN [room |-> r, ok |-> FALSE,
          sent |-> <<Send(id, AuthError("ROOM_FULL", FullText(r)), IsOpen(st, id))>>]
    ELSE LET p  == [id |-> id, displayName |-> name, state |-> NeutralState]
             r2 == [r EXCEPT !.members = MembersSet(@, p)]
         IN  [room |-> IF Len(r2.members) = 1 /\ ~r2.tick THEN StartTickLoop(r2) ELSE r2,
              ok |-> TRUE,
              sent |-> Broadcast(r2.members, PlayerJoined(id, name), id, st)]

\* The notification Room.leave broadcasts in each build.
LeftEnv(m, id) == IF m = "relay" THEN PeerLeft(id) ELSE PlayerLeft(id)

LeaveBroadcastFirst(r, id, m, st) ==
    IF id \notin MemberSet(r)
    THEN [room |-> r, sent |-> <<>>]
    ELSE LET r2 == [r EXCEPT !.members = MembersDel(@, id)]
         IN  [room |-> IF Len(r2.members) = 0 THEN StopTickLoop(r2) ELSE r2,
              sent |-> Broadcast(r.members, LeftEnv(m, id), 0, st)]

\* Room.leave of either build (the relay Room has no tick timer to stop).
Leave(r, id, m, st) ==
    IF id \notin MemberSet(r)
    THEN [room |-> r, sent |-> <<>>]
    ELSE LET r2 == [r EXCEPT !.members = MembersDel(@, id)]
         IN  [room |-> IF Len(r2.members) = 0 THEN StopTickLoop(r2) ELSE r2,
              sent |-> Broadcast(r2.members, LeftEnv(m, id), 0, st)]

RelayMsgEcho(r, fromId, data, st) ==
    IF fromId \notin MemberSet(r)
    THEN [room |-> r, sent |-> <<>>]
    ELSE [room |-> [r EXCEPT !.messageCount = @ + 1],
          sent |-> Broadcast(r.members, RelayEnv(fromId, data), 0, st)]

\* Room.relay
RelayMsg(r, fromId, data, st) ==
    IF fromId \notin MemberSet(r)
    THEN [room |-> r, sent |-> <<>>]
    ELSE [room |-> [r EXCEPT !.messageCount = @ + 1],
          sent |-> Broadcast(r.members, RelayEnv(fromId, data), fromId, st)]

UpdatePlayerStateEveryone(r, id, pose, t) ==
    IF id \notin MemberSet(r)
    THEN r
    ELSE [r EXCEPT !.members = [i \in DOMAIN r.members |->
                                  [r.members[i] EXCEPT
                                     !.state = [pose |-> pose, timestamp |-> t]]],
                   !.messageCount = @ + 1]

UpdatePlayerStateFirstWins(r, id, pose, t) ==
    IF id \notin MemberSet(r)
    THEN r
    ELSE [r EXCEPT
            !.members = MembersSet(@, [Member(r, id) EXCEPT
                                         !.state = IF @ = NeutralState
                                                   THEN [pose |-> pose, timestamp |-> t]
                                                   ELSE @]),
            !.messageCount = @ + 1]

\* Room.updatePlayerState
UpdatePlayerState(r, id, pose, t) ==
    IF id \notin MemberSet(r)
    THEN r
    ELSE [r EXCEPT
            !.members = MembersSet(@, [Member(r, id) EXCEPT
                                         !.state = [pose |-> pose, timestamp |-> t]]),
            !.messageCount = @ + 1]

ChatWhole(r, id, text, st) ==
    IF id \notin MemberSet(r)
    THEN [room |-> r, sent |-> <<>>]
    ELSE [room |-> [r EXCEPT !.messageCount = @ + 1],
          sent |-> Broadcast(r.members, ChatEnv(id, text), 0, st)]

\* Room.chat; text is a string here (a missing one makes message.slice throw).
Chat(r, id, text, st) ==
    IF id \notin MemberSet(r)
    THEN [room |-> r, sent |-> <<>>]
    ELSE [room |-> [r EXCEPT !.messageCount = @ + 1],
          sent |-> Broadcast(r.members, ChatEnv(id, Slice(text, ChatMax)), 0, st)]

\* Math.round((messageCount / elapsed) * 1000), for elapsed > 0
Rate(count, elapsed) == ((2 * count * 1000) + elapsed) \div (2 * elapsed)

\* updateMetrics() of the relay Room, and the same lines at the end of tick().
UpdateMetrics(r, t) ==
    IF t - r.lastReset >= 1000
    THEN [r EXCEPT !.messagesPerSecond = Rate(r.messageCount, t - r.lastReset),
                   !.messageCount = 0, !.lastReset = t]
    ELSE r

SnapshotPlayersActive(r) ==
    [id \in {m \in MemberSet(r) : Member(r, m).state # NeutralState} |->
        [state |-> Member(r, id).state, displayName |-> Member(r, id).displayName]]

\* The players of a snapshot: every member's state with its display name.
SnapshotPlayers(r) ==
    [id \in MemberSet(r) |->
        [state |-> Member(r, id).state, displayName |-> Member(r, id).displayName]]

\* Room.tick
Tick(r, t, st) ==
    IF Len(r.members) = 0
    THEN [room |-> r, sent |-> <<>>]
    ELSE [room |-> UpdateMetrics(r, t),
          sent |-> Broadcast(r.members, Snapshot(SnapshotPlayers(r), t), 0, st)]

\* The connections Room.destroy closes: ws.close(1001) on every member.
RECURSIVE CloseAll(_, _)
CloseAll(ms, st) ==
    IF ms = <<>> THEN st
    ELSE CloseAll(Tail(ms),
                  [st EXCEPT ![Head(ms).id] = IF @ = "open" THEN "closing" ELSE @])

\* Room.destroy: stop the tick timer (authoritative build), clear the members.
Destroy(r) == [StopTickLoop(r) EXCEPT !.members = <<>>]

\* ------------------------------------------------------- Session Router

\* The keepalive of a connection: timer (its ping interval is set), isAlive
\* (the handler's flag), and ping: "none", "sent" (a ws.ping() reached the peer
\* and no pong has come since) or "lost" (ws.ping() was called on a connection
\* that was not open, so no ping went out).
NoKeep == [timer |-> FALSE, isAlive |-> TRUE, ping |-> "none"]

\* let isAlive = true; setInterval(..., KEEPALIVE_MS)
StartKeep == [timer |-> TRUE, isAlive |-> TRUE, ping |-> "none"]

KeepaliveStepForgetful(k, open) ==
    IF ~k.isAlive
    THEN [keep |-> k, act |-> "terminate"]
    ELSE [keep |-> [k EXCEPT !.ping = IF open THEN "sent" ELSE "lost"], act |-> "ping"]

\* The body of the ping interval: terminate when the last ping went unanswered,
\* else clear isAlive and ping.
KeepaliveStep(k, open) ==
    IF ~k.isAlive
    THEN [keep |-> k, act |-> "terminate"]
    ELSE [keep |-> [k EXCEPT !.isAlive = FALSE,
                             !.ping = IF open THEN "sent" ELSE "lost"],
          act |-> "ping"]

\* ws.on('pong', () => { isAlive = true; })
PongStep(k) == [k EXCEPT !.isAlive = TRUE, !.ping = "none"]

\* clearInterval(pingInterval)
ClearKeepStays(k) == k

ClearKeep(k) == [k EXCEPT !.timer = FALSE, !.ping = "none"]

\* randomUUID(): the id of the next connection; ids are never reused.
NextClient == Cardinality({c \in Clients : status[c] # "idle"}) + 1

GetOrCreateRoomFresh(rid) ==
    [obj |-> Len(heap) + 1,
     heap |-> Append(heap, NewRoom(rid, now)),
     rooms |-> [rooms EXCEPT ![rid] = Len(heap) + 1]]

\* getOrCreateRoom(roomId): the Room object, and the heap and registry it leaves.
GetOrCreateRoom(rid) ==
    IF rooms[rid] # 0
    THEN [obj |-> rooms[rid], heap |-> heap, rooms |-> rooms]
    ELSE [obj |-> Len(heap) + 1,
          heap |-> Append(heap, NewRoom(rid, now)),
          rooms |-> [rooms EXCEPT ![rid] = Len(heap) + 1]]

\* An error the routers send with a bare ws.send, whatever the readyState.
RouterError(c, code) ==
    <<Send(c, IF mode = "relay" THEN RelayError(code, <<code>>)
              ELSE AuthError(code, <<code>>),
           IsOpen(status, c))>>

BadVersionEqual(msg) ==
    \/ msg.arg = "v1" /\ 1 = PROTOCOL_VERSION
    \/ msg.arg = "v2" /\ 2 = PROTOCOL_VERSION

\* typeof message.protocolVersion === 'number' && it differs from PROTOCOL_VERSION
BadVersion(msg) ==
    \/ msg.arg = "v1" /\ 1 # PROTOCOL_VERSION
    \/ msg.arg = "v2" /\ 2 # PROTOCOL_VERSION

RelayOutcomeDecodeFirst(c, f) ==
    IF DecodeRelay(f) = Null THEN "invalid"
    ELSE IF ~AllowOk(windows, c, now) THEN "limited"
    ELSE IF f.type = "hello" THEN (IF BadVersion(f) THEN "badproto" ELSE "hello")
    ELSE IF f.type = "ping" /\ f.arg = "nonce" THEN "pong"
    ELSE "relay"

RelayOutcomeHelloRelayed(c, f) ==
    IF ~AllowOk(windows, c, now) THEN "limited"
    ELSE IF DecodeRelay(f) = Null THEN "invalid"
    ELSE IF f.type = "hello" /\ BadVersion(f) THEN "badproto"
    ELSE IF f.type = "ping" /\ f.arg = "nonce" THEN "pong"
    ELSE "relay"

\* The branch the message handler of the relay router takes for frame f of
\* connection c: the rate limit, the decoding, hello, ping, and the relay.
RelayOutcome(c, f) ==
    IF ~AllowOk(windows, c, now) THEN "limited"
    ELSE IF DecodeRelay(f) = Null THEN "invalid"
    ELSE IF f.type = "hello" THEN (IF BadVersion(f) THEN "badproto" ELSE "hello")
    ELSE IF f.type = "ping" /\ f.arg = "nonce" THEN "pong"
    ELSE "relay"

AuthOutcomeStateSilent(c, f) ==
    IF ~AllowOk(windows, c, now) THEN "limited"
    ELSE IF DecodeAuth(f) = Null THEN "invalid"
    ELSE IF f.type = "join"
         THEN (IF meta[c].joined THEN "ignored"
               ELSE IF f.arg = "nopayload" THEN "crash" ELSE "join")
    ELSE IF f.type = "state"
         THEN (IF ~meta[c].joined THEN "ignored" ELSE "state")
    ELSE IF f.type = "chat"
         THEN (IF ~meta[c].joined THEN "ignored"
               ELSE IF f.arg = "nopayload" THEN "crash" ELSE "chat")
    ELSE "ignored"

AuthOutcomeJoinIgnored(c, f) ==
    IF ~AllowOk(windows, c, now) THEN "limited"
    ELSE IF DecodeAuth(f) = Null THEN "invalid"
    ELSE IF f.type = "state"
         THEN (IF ~meta[c].joined THEN "notjoined" ELSE "state")
    ELSE IF f.type = "chat"
         THEN (IF ~meta[c].joined THEN "ignored"
               ELSE IF f.arg = "nopayload" THEN "crash" ELSE "chat")
    ELSE "ignored"

AuthOutcomeRefusedForGood(c, f) ==
    IF ~AllowOk(windows, c, now) THEN "limited"
    ELSE IF DecodeAuth(f) = Null THEN "invalid"
    ELSE IF f.type = "join"
         THEN (IF meta[c].joined \/ refused[c] THEN "ignored"
               ELSE IF f.arg = "nopayload" THEN "crash" ELSE "join")
    ELSE IF f.type = "state"
         THEN (IF ~meta[c].joined THEN "notjoined" ELSE "state")
    ELSE IF f.type = "chat"
         THEN (IF ~meta[c].joined THEN "ignored"
               ELSE IF f.arg = "nopayload" THEN "crash" ELSE "chat")
    ELSE "ignored"

\* The branch the message handler of the authoritative router takes.  "crash":
\* message.payload is undefined where the handler reads a field of it, or
\* Room.chat calls slice on a message that is not a string.
AuthOutcome(c, f) ==
    IF ~AllowOk(windows, c, now) THEN "limited"
    ELSE IF DecodeAuth(f) = Null THEN "invalid"
    ELSE IF f.type = "join"
         THEN (IF meta[c].joined THEN "ignored"
               ELSE IF f.arg = "nopayload" THEN "crash" ELSE "join")
    ELSE IF f.type = "state"
         THEN (IF ~meta[c].joined THEN "notjoined" ELSE "state")
    ELSE IF f.type = "chat"
         THEN (IF ~meta[c].joined THEN "ignored"
               ELSE IF f.arg = "nopayload" THEN "crash" ELSE "chat")
    ELSE "ignored"

\* (message.payload.displayName || 'Anonymous').slice(0, 32)
DisplayName(f) ==
    Slice(IF f.arg = "longname" THEN Str("Bartholomew", 40) ELSE Str("Anonymous", 9),
          DisplayNameMax)

\* message.payload.message of a chat frame
ChatText(f) == IF f.arg = "longtext" THEN Str("long", ChatMax + 1) ELSE Str("hi", 2)

\* The intervals that are set: the metrics interval of the relay router (0) and
\* the tick interval of every Room object that has one.
Pending(h) ==
    (IF mode = "relay" THEN {0} ELSE {}) \cup {o \in DOMAIN h : h[o].timers > 0}

\* The intervals that are due after a step: when time has passed, every
\* interval that is set (a clock step is at least as long as each period); an
\* interval whose callback ran is no longer due, nor is one that was cleared.
DueNext ==
    LET kept == {t \in due : t \in Pending(heap')}
    IN  CASE last'.op = "clock" -> Pending(heap')
          [] last'.op = "metrics" -> kept \ {0}
          [] last'.op = "tick" -> kept \ {last'.room}
          [] OTHER -> kept

\* What a relay client knows of its room: whether it got its welcome, the peers
\* the welcome listed, the ids announced to it as joined and as left, and bad:
\* it got an envelope before its welcome, a second welcome, an id announced as
\* joined that it already knew of, or an id announced as left that it did not
\* know as present.
NoView == [welcomed |-> FALSE, peers |-> {}, joined |-> {}, left |-> {}, bad |-> FALSE]

\* The view after the client has read envelope env.
Seen(v, env) ==
    CASE env.type = "welcome" ->
           [welcomed |-> TRUE, peers |-> {env.peers[i] : i \in DOMAIN env.peers},
            joined |-> {}, left |-> {}, bad |-> v.bad \/ v.welcomed]
      [] env.type = "peer_joined" ->
           [v EXCEPT !.joined = @ \cup {env.peerId},
                     !.bad = \/ @ \/ ~v.welcomed
                             \/ env.peerId \in v.peers \cup v.joined]
      [] env.type = "peer_left" ->
           [v EXCEPT !.left = @ \cup {env.peerId},
                     !.bad = \/ @ \/ ~v.welcomed
                             \/ env.peerId \in v.left
                             \/ env.peerId \notin v.peers \cup v.joined]
      [] OTHER -> [v EXCEPT !.bad = @ \/ ~v.welcomed]

\* The view of client c after it has read, in order, the envelopes of s sent to
\* it on an open connection.
RECURSIVE ViewAfter(_, _, _)
ViewAfter(v, s, c) ==
    IF s = <<>> THEN v
    ELSE ViewAfter(IF Head(s).to = c /\ Head(s).ready THEN Seen(v, Head(s).env) ELSE v,
                   Tail(s), c)

\* The views after a step of the relay build; a client that is (no longer) a
\* member of any room has none.
ViewNext ==
    [c \in Clients |->
        IF mode # "relay" \/ ~\E o \in DOMAIN heap' : c \in MemberSet(heap'[o])
        THEN NoView
        ELSE ViewAfter(view[c], sent', c)]

\* The upgrade and the connection event of a new connection to /ws/<rid>.  The
\* relay router joins the room at once and closes the connection (1013) when
\* the room is full, before any handler is registered; the authoritative
\* router only registers its handlers.
Connect(rid) ==
    /\ ~crashed
    /\ NextClient <= config.conns
    /\ LET c  == NextClient
           st == [status EXCEPT ![c] = "open"]
           g  == GetOrCreateRoom(rid)
           j  == RelayJoin(g.heap[g.obj], c, st)
       IN  /\ meta' = [meta EXCEPT ![c] = [roomId |-> rid, joined |-> FALSE]]
           /\ IF mode = "relay"
              THEN /\ rooms' = g.rooms
                   /\ heap' = [g.heap EXCEPT ![g.obj] = j.room]
                   /\ sent' = j.sent
                   /\ status' = IF j.ok THEN st ELSE [st EXCEPT ![c] = "closing"]
                   /\ attached' = [attached EXCEPT ![c] = j.ok]
                   /\ keep' = [keep EXCEPT ![c] = IF j.ok THEN StartKeep ELSE NoKeep]
                   /\ captured' = [captured EXCEPT ![c] = IF j.ok THEN g.obj ELSE 0]
                   /\ last' = [NoLast EXCEPT !.op = "connect", !.c = c, !.call = "join",
                                             !.res = IF j.ok THEN "accepted" ELSE "rejected",
                                             !.room = g.obj,
                                             !.close = IF j.ok THEN 0 ELSE 1013]
              ELSE /\ status' = st
                   /\ attached' = [attached EXCEPT ![c] = TRUE]
                   /\ keep' = [keep EXCEPT ![c] = StartKeep]
                   /\ sent' = <<>>
                   /\ last' = [NoLast EXCEPT !.op = "connect", !.c = c]
                   /\ UNCHANGED <<rooms, heap, captured>>
    /\ UNCHANGED <<mode, config, now, windows, admitted, crashed, written, refused, counted>>
    /\ view' = ViewNext
    /\ due' = DueNext

\* The history of counted messages after a step: the rooms whose messageCount
\* the step raised counted a message now.
CountedNext ==
    [rid \in RoomIds |->
        IF \E o \in DOMAIN heap :
              heap[o].id = rid /\ heap'[o].messageCount > heap[o].messageCount
        THEN now ELSE counted[rid]]

\* No Room's messageCount is followed beyond MaxCount.
CountsBounded(h) == \A i \in DOMAIN h : h[i].messageCount <= MaxCount

\* ws.on('message') of the relay router, for frame f of connection c.
RelayOnMessage(c, f) ==
    /\ mode = "relay" /\ ~crashed
    /\ attached[c] /\ status[c] \in {"open", "closing"}
    /\ windows' = AllowWindows(windows, c, now)
    /\ LET out == RelayOutcome(c, f)
           r   == RelayMsg(heap[captured[c]], c, f, status)
       IN  /\ sent' = CASE out = "limited" -> RouterError(c, "RATE_LIMITED")
                        [] out = "invalid" -> RouterError(c, "INVALID_MESSAGE")
                        [] out = "badproto" -> RouterError(c, "BAD_PROTOCOL")
                        [] out = "hello" -> <<>>
                        [] out = "pong" -> <<Send(c, Pong("nonce", now), IsOpen(status, c))>>
                        [] out = "relay" -> r.sent
           /\ status' = IF out = "badproto"
                        THEN [status EXCEPT ![c] = "closing"] ELSE status
           /\ heap' = IF out = "relay"
                      THEN [heap EXCEPT ![captured[c]] = r.room] ELSE heap
           /\ CountsBounded(heap')
           /\ last' = [NoLast EXCEPT !.op = "message", !.c = c, !.frame = f,
                                     !.ok = AllowOk(windows, c, now),
                                     !.call = IF out = "relay" THEN "relay" ELSE "none",
                                     !.room = captured[c],
                                     !.close = IF out = "badproto" THEN 1008 ELSE 0]
    /\ UNCHANGED <<mode, config, now, admitted, attached, meta, captured, rooms,
                   crashed, keep, written, refused>>
    /\ view' = ViewNext
    /\ due' = DueNext
    /\ counted' = CountedNext

\* ws.on('message') of the authoritative router, for frame f of connection c.
AuthOnMessage(c, f) ==
    /\ mode = "auth" /\ ~crashed
    /\ attached[c] /\ status[c] \in {"open", "closing"}
    /\ windows' = AllowWindows(windows, c, now)
    /\ LET out == AuthOutcome(c, f)
           g   == GetOrCreateRoom(meta[c].roomId)
           rm  == g.heap[g.obj]
           j   == AuthJoin(rm, c, DisplayName(f), status)
           ch  == Chat(rm, c, ChatText(f), status)
           rm2 == CASE out = "join" -> j.room
                    [] out = "state" -> UpdatePlayerState(rm, c, f.arg, now)
                    [] out = "chat" -> ch.room
                    [] OTHER -> rm
       IN  /\ sent' = CASE out = "limited" -> RouterError(c, "RATE_LIMITED")
                        [] out = "invalid" -> RouterError(c, "INVALID_MESSAGE")
                        [] out = "notjoined" -> RouterError(c, "NOT_JOINED")
                        [] out = "join" -> j.sent
                        [] out = "chat" -> ch.sent
                        [] OTHER -> <<>>
           /\ IF out \in {"limited", "invalid"}
              THEN UNCHANGED <<rooms, heap>>
              ELSE /\ rooms' = g.rooms
                   /\ heap' = [g.heap EXCEPT ![g.obj] = rm2]
           /\ CountsBounded(heap')
           /\ meta' = IF out = "join" /\ j.ok
                      THEN [meta EXCEPT ![c].joined = TRUE] ELSE meta
           /\ crashed' = (out = "crash")
           /\ refused' = IF out = "join" /\ ~j.ok
                         THEN [refused EXCEPT ![c] = TRUE] ELSE refused
           /\ counted' = CountedNext
           /\ written' = CASE out = "join" /\ j.ok -> [written EXCEPT ![c] = "neutral"]
                           [] out = "state" /\ c \in MemberSet(rm) ->
                                [written EXCEPT ![c] = f.arg]
                           [] OTHER -> written
           /\ last' = [NoLast EXCEPT !.op = "message", !.c = c, !.frame = f,
                                     !.ok = AllowOk(windows, c, now),
                                     !.call = CASE out = "join" -> "join"
                                                [] out = "state" -> "update"
                                                [] out = "chat" -> "chat"
                                                [] OTHER -> "none",
                                     !.res = IF out # "join" THEN "none"
                                             ELSE IF j.ok THEN "accepted" ELSE "rejected",
                                     !.room = IF out \in {"limited", "invalid"}
                                              THEN 0 ELSE g.obj]
    /\ UNCHANGED <<mode, config, now, admitted, status, attached, captured, keep>>
    /\ view' = ViewNext
    /\ due' = DueNext

\* The peer closes (or the socket ends): readyState leaves OPEN, no further frame
\* of this connection is read, and the close event is still to come.
ClientClose(c) ==
    /\ ~crashed
    /\ status[c] = "open"
    /\ status' = [status EXCEPT ![c] = "ending"]
    /\ sent' = <<>>
    /\ last' = [NoLast EXCEPT !.op = "clientclose", !.c = c]
    /\ UNCHANGED <<mode, config, now, windows, admitted, attached, meta, captured,
                   rooms, heap, crashed, keep, written, refused, counted>>
    /\ view' = ViewNext
    /\ due' = DueNext

\* The ws library emits 'error' for connection c (the peer sent bytes that are
\* no valid WebSocket frame) and ends the connection.  A connection the routers
\* accepted has an 'error' listener, which logs; a connection the relay router
\* turned away has none (the connection handler returned before registering
\* it), so the emit throws and nothing catches it.
SocketError(c) ==
    /\ ~crashed
    /\ status[c] \in {"open", "closing"}
    /\ IF attached[c]
       THEN /\ status' = [status EXCEPT ![c] = "ending"]
            /\ UNCHANGED crashed
       ELSE /\ crashed' = TRUE
            /\ UNCHANGED status
    /\ sent' = <<>>
    /\ last' = [NoLast EXCEPT !.op = "error", !.c = c]
    /\ UNCHANGED <<mode, config, now, windows, admitted, attached, meta, captured,
                   rooms, heap, keep, written, refused, counted>>
    /\ view' = ViewNext
    /\ due' = DueNext

RoomGoneLobbyToo(r, rid) == PlayerCount(r) = 0

RoomGoneNever(r, rid) == FALSE

\* r.playerCount === 0 && roomId !== 'lobby': the close handler discards the room.
RoomGone(r, rid) == PlayerCount(r) = 0 /\ rid # "lobby"

\* ws.on('close') of either router; a connection the relay router turned away
\* has no handler and only ends.
CloseEvent(c) ==
    /\ ~crashed
    /\ status[c] \in {"closing", "ending"}
    /\ LET st  == [status EXCEPT ![c] = "closed"]
           rid == meta[c].roomId
           o   == rooms[rid]
           l   == Leave(heap[o], c, mode, st)
           gone == RoomGone(l.room, rid)
       IN  IF ~attached[c]
           THEN /\ status' = st
                /\ sent' = <<>>
                /\ UNCHANGED <<windows, rooms, heap, keep, written, refused, counted>>
           ELSE /\ keep' = [keep EXCEPT ![c] = ClearKeep(@)]
                /\ windows' = RemoveWindows(windows, c)
                /\ written' = [written EXCEPT ![c] = "none"]
                /\ refused' = [refused EXCEPT ![c] = FALSE]
                /\ UNCHANGED counted
                /\ IF o = 0
                   THEN /\ status' = st
                        /\ sent' = <<>>
                        /\ UNCHANGED <<rooms, heap>>
                   ELSE /\ sent' = l.sent
                        /\ heap' = [heap EXCEPT ![o] = IF gone THEN Destroy(l.room)
                                                       ELSE l.room]
                        /\ status' = IF gone THEN CloseAll(l.room.members, st) ELSE st
                        /\ rooms' = IF gone THEN [rooms EXCEPT ![rid] = 0] ELSE rooms
    /\ last' = [NoLast EXCEPT !.op = "close", !.c = c,
                              !.call = IF attached[c] /\ rooms[meta[c].roomId] # 0
                                       THEN "leave" ELSE "none",
                              !.room = rooms[meta[c].roomId]]
    /\ UNCHANGED <<mode, config, now, admitted, attached, meta, captured, crashed>>
    /\ view' = ViewNext
    /\ due' = DueNext

\* The tick timer of Room object o fires (authoritative build).
TickTimer(o) ==
    /\ mode = "auth" /\ ~crashed
    /\ heap[o].timers > 0
    /\ LET t == Tick(heap[o], now, status)
       IN  /\ heap' = [heap EXCEPT ![o] = t.room]
           /\ sent' = t.sent
    /\ last' = [NoLast EXCEPT !.op = "tick", !.call = "tick", !.room = o]
    /\ UNCHANGED <<mode, config, now, windows, admitted, status, attached, meta,
                   captured, rooms, crashed, keep, written, refused, counted>>
    /\ view' = ViewNext
    /\ due' = DueNext

\* The 1000 ms metrics interval of the relay router fires.
MetricsTimer ==
    /\ mode = "relay" /\ ~crashed
    /\ heap' = [i \in DOMAIN heap |->
                  IF \E rid \in RoomIds : rooms[rid] = i
                  THEN UpdateMetrics(heap[i], now) ELSE heap[i]]
    /\ sent' = <<>>
    /\ last' = [NoLast EXCEPT !.op = "metrics"]
    /\ UNCHANGED <<mode, config, now, windows, admitted, status, attached, meta,
                   captured, rooms, crashed, keep, written, refused, counted>>
    /\ view' = ViewNext
    /\ due' = DueNext

\* The 10 s cleanup interval of either router fires.
CleanupTimer ==
    /\ mode \in {"relay", "auth"} /\ ~crashed
    /\ windows' = CleanupWindows(windows, now)
    /\ sent' = <<>>
    /\ last' = [NoLast EXCEPT !.op = "cleanup"]
    /\ UNCHANGED <<mode, config, now, admitted, status, attached, meta, captured, rooms,
                   heap, crashed, keep, written, refused, counted>>
    /\ view' = ViewNext
    /\ due' = DueNext

\* Time passes.
AdvanceClock(d) ==
    /\ ~crashed
    /\ now + d <= config.maxNow
    /\ now' = now + d
    /\ sent' = <<>>
    /\ last' = [NoLast EXCEPT !.op = "clock"]
    /\ UNCHANGED <<mode, config, windows, admitted, status, attached, meta, captured,
                   rooms, heap, crashed, keep, written, refused, counted>>
    /\ view' = ViewNext
    /\ due' = DueNext

Init ==
    /\ mode \in {"relay", "auth"}
    /\ config \in {Crowded, Chatty, Timed}
    /\ now = 0
    /\ windows = << >>
    /\ admitted = [c \in Clients |-> <<>>]
    /\ status = [c \in Clients |-> "idle"]
    /\ attached = [c \in Clients |-> FALSE]
    /\ meta = [c \in Clients |-> [roomId |-> "lobby", joined |-> FALSE]]
    /\ captured = [c \in Clients |-> 0]
    /\ rooms = [r \in RoomIds |-> 0]
    /\ heap = <<>>
    /\ sent = <<>>
    /\ last = NoLast
    /\ crashed = FALSE
    /\ keep = [c \in Clients |-> NoKeep]
    /\ written = [c \in Clients |-> "none"]
    /\ refused = [c \in Clients |-> FALSE]
    /\ counted = [rid \in RoomIds |-> -1]
    /\ view = [c \in Clients |-> NoView]
    /\ due = {}

Next ==
    \/ \E rid \in RoomIds : Connect(rid)
    \/ \E c \in Clients, f \in RelayFrames : RelayOnMessage(c, f)
    \/ \E c \in Clients, f \in AuthFrames : AuthOnMessage(c, f)
    \/ \E c \in Clients : ClientClose(c)
    \/ \E c \in Clients : SocketError(c)
    \/ \E c \in Clients : CloseEvent(c)
    \/ \E o \in DOMAIN heap : TickTimer(o)
    \/ MetricsTimer
    \/ CleanupTimer
    \/ \E d \in ClockSteps : AdvanceClock(d)

Spec == Init /\ [][Next]_vars

\* ------------------------------------------------ the routers with keepalive

\* The ping interval of connection c fires.
KeepaliveFire(c) ==
    /\ ~crashed
    /\ keep[c].timer
    /\ LET k == KeepaliveStep(keep[c], IsOpen(status, c))
       IN  /\ keep' = [keep EXCEPT ![c] = k.keep]
           /\ status' = IF k.act = "terminate" /\ status[c] \in {"open", "closing"}
                        THEN [status EXCEPT ![c] = "ending"] ELSE status
           /\ last' = [NoLast EXCEPT !.op = "keepalive", !.c = c, !.res = k.act]
    /\ sent' = <<>>
    /\ UNCHANGED <<mode, config, now, windows, admitted, attached, meta, captured, rooms,
                   heap, crashed, written, refused, counted>>
    /\ view' = ViewNext
    /\ due' = DueNext

\* A pong frame of the peer arrives, asked for or not: the pong handler runs.
PongEvent(c) ==
    /\ ~crashed
    /\ keep[c].timer
    /\ status[c] \in {"open", "closing"}
    /\ keep' = [keep EXCEPT ![c] = PongStep(@)]
    /\ sent' = <<>>
    /\ last' = [NoLast EXCEPT !.op = "pong", !.c = c]
    /\ UNCHANGED <<mode, config, now, windows, admitted, status, attached, meta, captured,
                   rooms, heap, crashed, written, refused, counted>>
    /\ view' = ViewNext
    /\ due' = DueNext

\* The configuration of the runs that follow the keepalive.
Keep == [maxPlayers |-> MaxPlayersPerRoom, maxMessages |-> LowRate,
         conns |-> FewClients, maxNow |-> 0]

\* The frames clients send in these runs.
KeepRelayFrames == {Frame("map", "move", "none"), Frame("map", "hello", "v2")}

KeepAuthFrames == {Frame("map", "join", "noname"), Frame("map", "state", "s1")}

InitKeep ==
    /\ mode \in {"relay", "auth"}
    /\ config = Keep
    /\ now = 0
    /\ windows = << >>
    /\ admitted = [c \in Clients |-> <<>>]
    /\ status = [c \in Clients |-> "idle"]
    /\ attached = [c \in Clients |-> FALSE]
    /\ meta = [c \in Clients |-> [roomId |-> "lobby", joined |-> FALSE]]
    /\ captured = [c \in Clients |-> 0]
    /\ rooms = [r \in RoomIds |-> 0]
    /\ heap = <<>>
    /\ sent = <<>>
    /\ last = NoLast
    /\ crashed = FALSE
    /\ keep = [c \in Clients |-> NoKeep]
    /\ written = [c \in Clients |-> "none"]
    /\ refused = [c \in Clients |-> FALSE]
    /\ counted = [rid \in RoomIds |-> -1]
    /\ view = [c \in Clients |-> NoView]
    /\ due = {}

NextKeep ==
    \/ \E rid \in RoomIds : Connect(rid)
    \/ \E c \in Clients, f \in KeepRelayFrames : RelayOnMessage(c, f)
    \/ \E c \in Clients, f \in KeepAuthFrames : AuthOnMessage(c, f)
    \/ \E c \in Clients : ClientClose(c)
    \/ \E c \in Clients : SocketError(c)
    \/ \E c \in Clients : CloseEvent(c)
    \/ \E c \in Clients : KeepaliveFire(c)
    \/ \E c \in Clients : PongEvent(c)

SpecKeep == InitKeep /\ [][NextKeep]_vars

\* ------------------------------------------- the routers fed every frame shape

\* The configuration of the runs in which clients send frames of every shape.
Wire == [maxPlayers |-> MaxPlayersPerRoom, maxMessages |-> LowRate,
         conns |-> FewClients, maxNow |-> 0]

InitWire ==
    /\ mode \in {"relay", "auth"}
    /\ config = Wire
    /\ now = 0
    /\ windows = << >>
    /\ admitted = [c \in Clients |-> <<>>]
    /\ status = [c \in Clients |-> "idle"]
    /\ attached = [c \in Clients |-> FALSE]
    /\ meta = [c \in Clients |-> [roomId |-> "lobby", joined |-> FALSE]]
    /\ captured = [c \in Clients |-> 0]
    /\ rooms = [r \in RoomIds |-> 0]
    /\ heap = <<>>
    /\ sent = <<>>
    /\ last = NoLast
    /\ crashed = FALSE
    /\ keep = [c \in Clients |-> NoKeep]
    /\ written = [c \in Clients |-> "none"]
    /\ refused = [c \in Clients |-> FALSE]
    /\ counted = [rid \in RoomIds |-> -1]
    /\ view = [c \in Clients |-> NoView]
    /\ due = {}

NextWire ==
    \/ \E rid \in RoomIds : Connect(rid)
    \/ \E c \in Clients, f \in WireFrames : RelayOnMessage(c, f)
    \/ \E c \in Clients, f \in WireFrames : AuthOnMessage(c, f)
    \/ \E c \in Clients : ClientClose(c)
    \/ \E c \in Clients : CloseEvent(c)

SpecWire == InitWire /\ [][NextWire]_vars

\* ------------------------------------- the routers with more clients than room

\* The configuration of the runs in which a client can send a second frame after
\* a member of the full room has gone.
Retry == [maxPlayers |-> MaxPlayersPerRoom, maxMessages |-> HighRate,
          conns |-> MaxClients, maxNow |-> 0]

\* The frames clients send in these runs.
RetryRelayFrames == {Frame("map", "move", "none")}

RetryAuthFrames == {Frame("map", "join", "noname"), Frame("map", "state", "s1")}

InitRetry ==
    /\ mode \in {"relay", "auth"}
    /\ config = Retry
    /\ now = 0
    /\ windows = << >>
    /\ admitted = [c \in Clients |-> <<>>]
    /\ status = [c \in Clients |-> "idle"]
    /\ attached = [c \in Clients |-> FALSE]
    /\ meta = [c \in Clients |-> [roomId |-> "lobby", joined |-> FALSE]]
    /\ captured = [c \in Clients |-> 0]
    /\ rooms = [r \in RoomIds |-> 0]
    /\ heap = <<>>
    /\ sent = <<>>
    /\ last = NoLast
    /\ crashed = FALSE
    /\ keep = [c \in Clients |-> NoKeep]
    /\ written = [c \in Clients |-> "none"]
    /\ refused = [c \in Clients |-> FALSE]
    /\ counted = [rid \in RoomIds |-> -1]
    /\ view = [c \in Clients |-> NoView]
    /\ due = {}

NextRetry ==
    \/ \E rid \in RoomIds : Connect(rid)
    \/ \E c \in Clients, f \in RetryRelayFrames : RelayOnMessage(c, f)
    \/ \E c \in Clients, f \in RetryAuthFrames : AuthOnMessage(c, f)
    \/ \E c \in Clients : ClientClose(c)
    \/ \E c \in Clients : CloseEvent(c)

SpecRetry == InitRetry /\ [][NextRetry]_vars

\* --------------------------------------- the routers with periodic refreshes

\* The configuration of the runs that follow the messages/sec gauge: the clock
\* advances by whole refresh periods.
Metrics == [maxPlayers |-> MaxPlayersPerRoom, maxMessages |-> HighRate,
            conns |-> FewClients, maxNow |-> MaxNowMetrics]

\* The frames clients send in these runs.
MetricsRelayFrames == {Frame("map", "move", "none")}

MetricsAuthFrames == {Frame("map", "join", "noname"), Frame("map", "state", "s1")}

\* A refresh period has ended and an interval that recomputes the gauge is set
\* (the relay router's metrics interval, or the tick interval of a room of the
\* authoritative build) and its callback has not run yet.
RefreshDue == due # {}

InitMetrics ==
    /\ mode \in {"relay", "auth"}
    /\ config = Metrics
    /\ now = 0
    /\ windows = << >>
    /\ admitted = [c \in Clients |-> <<>>]
    /\ status = [c \in Clients |-> "idle"]
    /\ attached = [c \in Clients |-> FALSE]
    /\ meta = [c \in Clients |-> [roomId |-> "lobby", joined |-> FALSE]]
    /\ captured = [c \in Clients |-> 0]
    /\ rooms = [r \in RoomIds |-> 0]
    /\ heap = <<>>
    /\ sent = <<>>
    /\ last = NoLast
    /\ crashed = FALSE
    /\ keep = [c \in Clients |-> NoKeep]
    /\ written = [c \in Clients |-> "none"]
    /\ refused = [c \in Clients |-> FALSE]
    /\ counted = [rid \in RoomIds |-> -1]
    /\ view = [c \in Clients |-> NoView]
    /\ due = {}

\* An interval fires once its period has ended, in any order with the events
\* of the connections, and before another whole period has passed.
NextMetrics ==
    \/ 0 \in due /\ MetricsTimer
    \/ \E o \in DOMAIN heap : o \in due /\ TickTimer(o)
    \/ Connect("lobby")
    \/ \E c \in Clients, f \in MetricsRelayFrames : RelayOnMessage(c, f)
    \/ \E c \in Clients, f \in MetricsAuthFrames : AuthOnMessage(c, f)
    \/ \E c \in Clients : ClientClose(c)
    \/ \E c \in Clients : CloseEvent(c)
    \/ ~RefreshDue /\ AdvanceClock(RefreshMs)

SpecMetrics == InitMetrics /\ [][NextMetrics]_vars

\* ------------------------------------------------------ the Room on its own

\* The methods of Room objects called directly, in any order and for any client
\* id.  join is called as the routers call it: for an id that is not yet a
\* member, with a connection that is open.

RoomSizes == [maxPlayers |-> MaxPlayersPerRoom, maxMessages |-> LowRate,
              conns |-> MaxClients, maxNow |-> 0]

\* The payloads relayed and the states stored in these runs.
RoomData == {Frame("map", "move", "none"), Frame("map", "ping", "none")}

RoomPoses == {"s1", "s2"}

\* The chat frames given to room.chat: a short message and one over the limit.
RoomChats == {Frame("map", "chat", "text"), Frame("map", "chat", "longtext")}

InitRoom ==
    /\ mode \in {"relay", "auth"}
    /\ config = RoomSizes
    /\ now = 0
    /\ windows = << >>
    /\ admitted = [c \in Clients |-> <<>>]
    /\ status = [c \in Clients |-> "open"]
    /\ attached = [c \in Clients |-> TRUE]
    /\ meta = [c \in Clients |-> [roomId |-> "lobby", joined |-> FALSE]]
    /\ captured = [c \in Clients |-> 0]
    /\ heap = <<NewRoom("lobby", 0)>>
    /\ rooms = [r \in {"lobby"} |-> 1]
    /\ sent = <<>>
    /\ last = NoLast
    /\ crashed = FALSE
    /\ keep = [c \in Clients |-> NoKeep]
    /\ written = [c \in Clients |-> "none"]
    /\ refused = [c \in Clients |-> FALSE]
    /\ counted = [rid \in RoomIds |-> -1]
    /\ view = [c \in Clients |-> NoView]
    /\ due = {}

\* What a call of a Room method leaves alone.
RoomFrame ==
    /\ UNCHANGED <<mode, config, now, windows, admitted, attached, meta, captured, rooms,
                   crashed, keep>>
    /\ view' = ViewNext
    /\ due' = DueNext
    /\ counted' = CountedNext

\* room.join(c, ws) / room.join(c, ws, displayName) on Room object o.
RoomJoin(o, c) ==
    /\ c \notin MemberSet(heap[o])
    /\ status[c] = "open"
    /\ LET j == IF mode = "relay" THEN RelayJoin(heap[o], c, status)
                ELSE AuthJoin(heap[o], c, Str("Anonymous", 9), status)
       IN  /\ heap' = [heap EXCEPT ![o] = j.room]
           /\ sent' = j.sent
           /\ last' = [NoLast EXCEPT !.op = "call", !.c = c, !.call = "join",
                                     !.res = IF j.ok THEN "accepted" ELSE "rejected",
                                     !.room = o]
           /\ written' = IF j.ok THEN [written EXCEPT ![c] = "neutral"] ELSE written
           /\ UNCHANGED refused
    /\ UNCHANGED status
    /\ RoomFrame

\* room.leave(c)
RoomLeave(o, c) ==
    /\ LET l == Leave(heap[o], c, mode, status)
       IN  /\ heap' = [heap EXCEPT ![o] = l.room]
           /\ sent' = l.sent
    /\ last' = [NoLast EXCEPT !.op = "call", !.c = c, !.call = "leave", !.room = o]
    /\ written' = IF c \in MemberSet(heap[o])
                  THEN [written EXCEPT ![c] = "none"] ELSE written
    /\ UNCHANGED refused
    /\ UNCHANGED status
    /\ RoomFrame

\* room.relay(c, data) (relay build)
RoomRelay(o, c, data) ==
    /\ mode = "relay"
    /\ LET r == RelayMsg(heap[o], c, data, status)
       IN  /\ heap' = [heap EXCEPT ![o] = r.room]
           /\ sent' = r.sent
    /\ CountsBounded(heap')
    /\ last' = [NoLast EXCEPT !.op = "call", !.c = c, !.frame = data,
                              !.call = "relay", !.room = o]
    /\ UNCHANGED <<status, written, refused>>
    /\ RoomFrame

\* room.updatePlayerState(c, state) (authoritative build).  The record of the
\* call says "rewrite" when the call before it was an update of the same member
\* with another state.
RoomUpdate(o, c, pose) ==
    /\ mode = "auth"
    /\ heap' = [heap EXCEPT ![o] = UpdatePlayerState(heap[o], c, pose, now)]
    /\ CountsBounded(heap')
    /\ sent' = <<>>
    /\ last' = [NoLast EXCEPT !.op = "call", !.c = c, !.call = "update", !.room = o,
                              !.frame = Frame("map", "state", pose),
                              !.res = IF /\ last.call = "update" /\ last.c = c
                                         /\ c \in MemberSet(heap[o])
                                         /\ written[c] # pose
                                      THEN "rewrite" ELSE "none"]
    /\ written' = IF c \in MemberSet(heap[o])
                  THEN [written EXCEPT ![c] = pose] ELSE written
    /\ UNCHANGED refused
    /\ UNCHANGED status
    /\ RoomFrame

\* room.chat(c, message) (authoritative build), the message that of frame f
RoomChat(o, c, f) ==
    /\ mode = "auth"
    /\ LET ch == Chat(heap[o], c, ChatText(f), status)
       IN  /\ heap' = [heap EXCEPT ![o] = ch.room]
           /\ sent' = ch.sent
    /\ CountsBounded(heap')
    /\ last' = [NoLast EXCEPT !.op = "call", !.c = c, !.frame = f, !.call = "chat",
                              !.room = o]
    /\ UNCHANGED <<status, written, refused>>
    /\ RoomFrame

\* The tick timer of Room object o fires (authoritative build).
RoomTick(o) ==
    /\ mode = "auth"
    /\ heap[o].timers > 0
    /\ LET t == Tick(heap[o], now, status)
       IN  /\ heap' = [heap EXCEPT ![o] = t.room]
           /\ sent' = t.sent
    /\ last' = [NoLast EXCEPT !.op = "call", !.call = "tick", !.room = o,
                              !.c = IF last.res = "rewrite" THEN last.c ELSE 0,
                              !.res = IF last.res = "rewrite"
                                      THEN "after-rewrite" ELSE "none"]
    /\ UNCHANGED <<status, written, refused>>
    /\ RoomFrame

\* room.destroy()
RoomDestroy(o) ==
    /\ heap' = [heap EXCEPT ![o] = Destroy(heap[o])]
    /\ status' = CloseAll(heap[o].members, status)
    /\ sent' = <<>>
    /\ last' = [NoLast EXCEPT !.op = "call", !.call = "destroy", !.room = o]
    /\ written' = [c \in Clients |->
                     IF c \in MemberSet(heap[o]) THEN "none" ELSE written[c]]
    /\ UNCHANGED refused
    /\ RoomFrame

\* The connection of c leaves OPEN (its peer closes, or its socket ends).
ConnEnds(c) ==
    /\ status[c] = "open"
    /\ status' = [status EXCEPT ![c] = "ending"]
    /\ sent' = <<>>
    /\ last' = [NoLast EXCEPT !.op = "connends", !.c = c]
    /\ UNCHANGED <<heap, written, refused>>
    /\ RoomFrame

NextRoom ==
    \/ \E o \in DOMAIN heap, c \in Clients : RoomJoin(o, c)
    \/ \E o \in DOMAIN heap, c \in Clients : RoomLeave(o, c)
    \/ \E o \in DOMAIN heap, c \in Clients, d \in RoomData : RoomRelay(o, c, d)
    \/ \E o \in DOMAIN heap, c \in Clients, p \in RoomPoses : RoomUpdate(o, c, p)
    \/ \E o \in DOMAIN heap, c \in Clients, f \in RoomChats : RoomChat(o, c, f)
    \/ \E o \in DOMAIN heap : RoomTick(o)
    \/ \E o \in DOMAIN heap : RoomDestroy(o)
    \/ \E c \in Clients : ConnEnds(c)

SpecRoom == InitRoom /\ [][NextRoom]_vars

\* ------------------------------------------------- the RateLimiter on its own

InitRL ==
    /\ mode = "limiter"
    /\ config = LimiterOnly
    /\ now = 0
    /\ windows = << >>
    /\ admitted = [c \in Clients |-> <<>>]
    /\ status = [c \in Clients |-> IF c <= LimiterOnly.conns THEN "open" ELSE "idle"]
    /\ attached = [c \in Clients |-> c <= LimiterOnly.conns]
    /\ meta = [c \in Clients |-> [roomId |-> "lobby", joined |-> FALSE]]
    /\ captured = [c \in Clients |-> 0]
    /\ rooms = [r \in RoomIds |-> 0]
    /\ heap = <<>>
    /\ sent = <<>>
    /\ last = NoLast
    /\ crashed = FALSE
    /\ keep = [c \in Clients |-> NoKeep]
    /\ written = [c \in Clients |-> "none"]
    /\ refused = [c \in Clients |-> FALSE]
    /\ counted = [rid \in RoomIds |-> -1]
    /\ view = [c \in Clients |-> NoView]
    /\ due = {}

\* What a run of the limiter alone leaves alone.
RLFrame == UNCHANGED <<mode, config, attached, meta, captured, rooms, heap, sent,
                       crashed, keep, written, refused, counted, view, due>>

\* rateLimiter.allow(c), called by the message handler of an open connection.
RLAllow(c) ==
    /\ status[c] = "open"
    /\ windows' = AllowWindows(windows, c, now)
    /\ admitted' = IF AllowOk(windows, c, now)
                   THEN [admitted EXCEPT ![c] = Append(@, now)]
                   ELSE admitted
    /\ last' = [NoLast EXCEPT !.op = "allow", !.c = c, !.ok = AllowOk(windows, c, now)]
    /\ UNCHANGED <<now, status>>
    /\ RLFrame

\* rateLimiter.remove(c), called once by the close handler of the connection.
RLRemove(c) ==
    /\ status[c] = "open"
    /\ windows' = RemoveWindows(windows, c)
    /\ status' = [status EXCEPT ![c] = "closed"]
    /\ last' = [NoLast EXCEPT !.op = "remove", !.c = c]
    /\ UNCHANGED <<now, admitted>>
    /\ RLFrame

\* rateLimiter.cleanup(), called by the 10 s interval.
RLCleanup ==
    /\ windows' = CleanupWindows(windows, now)
    /\ last' = [NoLast EXCEPT !.op = "cleanup"]
    /\ UNCHANGED <<now, admitted, status>>
    /\ RLFrame

\* Time passes (the clock never runs backwards).
RLAdvance(d) ==
    /\ now + d <= config.maxNow
    /\ now' = now + d
    /\ last' = [NoLast EXCEPT !.op = "clock"]
    /\ UNCHANGED <<windows, admitted, status>>
    /\ RLFrame

NextRL ==
    \/ \E c \in Clients : RLAllow(c)
    \/ \E c \in Clients : RLRemove(c)
    \/ RLCleanup
    \/ \E d \in RLSteps : RLAdvance(d)

SpecRL == InitRL /\ [][NextRL]_vars

\* ----------------------------------------------------------------- claims

\* The ws.send calls of a handler that reached connection c.
SendsTo(s, c) == {i \in DOMAIN s : s[i].to = c /\ s[i].ready}

\* env is an error envelope of the running build with the given code.
IsError(env, code) ==
    /\ env.type = "error"
    /\ IF mode = "relay" THEN env.code = code ELSE env.payload.code = code

\* The members Room object o had before the step (none if the step created it).
Before(o) == IF o \in DOMAIN heap THEN heap[o].members ELSE <<>>

\* C1: in either build, whatever Room methods have been called, no room has
\* more members than its capacity (and no member is listed twice).
C1_Capacity ==
    \A o \in DOMAIN heap :
        /\ Len(heap[o].members) <= config.maxPlayers
        /\ Cardinality(MemberSet(heap[o])) = Len(heap[o].members)

\* A join has just been rejected by a room that holds exactly capacity members.
C1_Witness ==
    /\ last.call = "join" /\ last.res = "rejected"
    /\ Len(heap[last.room].members) = config.maxPlayers

\* C2: a join on a room whose member count equals its capacity returns
\* rejected, sends exactly one ROOM_FULL error, to the rejected connection,
\* and changes no room (membership, tick timer, counters).
C2_FullJoinRejected ==
    [][(last'.call = "join" /\ Len(Before(last'.room)) = config.maxPlayers)
         => /\ last'.res = "rejected"
            /\ Len(sent') = 1
            /\ sent'[1].to = last'.c /\ sent'[1].ready
            /\ IsError(sent'[1].env, "ROOM_FULL")
            /\ last'.c \notin {Before(last'.room)[i].id : i \in DOMAIN Before(last'.room)}
            /\ heap' = heap]_vars

\* The authoritative Room, full and ticking, has just rejected a join.
C2_Witness ==
    /\ mode = "auth"
    /\ last.call = "join" /\ last.res = "rejected"
    /\ Len(sent) = 1 /\ IsError(sent[1].env, "ROOM_FULL")
    /\ heap[last.room].tick

\* C3: in the relay build, relay(A, data) by a member A sends one relay envelope
\* from A carrying data to each other member whose connection is open, nothing
\* to anybody else, and adds one to messageCount; by a non-member it sends
\* nothing and changes nothing.
C3_Relay ==
    [][last'.call = "relay"
         => LET o == last'.room
                A == last'.c
                others == {b \in MemberSet(heap[o]) \ {A} : IsOpen(status, b)}
            IN  IF A \in MemberSet(heap[o])
                THEN /\ \A b \in others : Cardinality(SendsTo(sent', b)) = 1
                     /\ \A i \in DOMAIN sent' :
                           /\ sent'[i].to \in others
                           /\ sent'[i].env = RelayEnv(A, last'.frame)
                     /\ heap'[o].messageCount = heap[o].messageCount + 1
                     /\ heap'[o].members = heap[o].members
                ELSE sent' = <<>> /\ heap' = heap]_vars

\* A member has just relayed in a room with an open member and a member whose
\* connection is no longer open: one envelope went out.
C3_Witness ==
    /\ last.call = "relay" /\ last.op = "call"
    /\ last.c \in MemberSet(heap[last.room])
    /\ Len(heap[last.room].members) = MaxPlayersPerRoom
    /\ Len(sent) = MaxPlayersPerRoom - 1

\* The ids of a member list, as a set.
IdSet(ms) == {ms[i].id : i \in DOMAIN ms}

\* C4, as stated: an accepted relay join of X sends X the welcome first (its
\* playerId X, its peers the members before the join, X not among them), then
\* one peer_joined naming X to every other current member, none to X.
C4_AsStated ==
    [][(mode = "relay" /\ last'.call = "join" /\ last'.res = "accepted")
         => LET X == last'.c
                before == Before(last'.room)
            IN  /\ X \notin IdSet(before)
                /\ Len(sent') >= 1
                /\ sent'[1] = Send(X, Welcome(X, Ids(before)), TRUE)
                /\ \A i \in 2..Len(sent') :
                      sent'[i].env = PeerJoined(X) /\ sent'[i].to \in IdSet(before)
                /\ \A b \in IdSet(before) : Cardinality(SendsTo(sent', b)) = 1]_vars

\* C4, amended: the same, the peer_joined going to every other current member
\* whose connection is open, and to nobody else.
C4_JoinNotifiesOpen ==
    [][(mode = "relay" /\ last'.call = "join" /\ last'.res = "accepted")
         => LET X == last'.c
                before == Before(last'.room)
                open == {b \in IdSet(before) : IsOpen(status, b)}
            IN  /\ X \notin IdSet(before)
                /\ Len(sent') >= 1
                /\ sent'[1] = Send(X, Welcome(X, Ids(before)), TRUE)
                /\ \A i \in 2..Len(sent') :
                      sent'[i].env = PeerJoined(X) /\ sent'[i].to \in open
                /\ \A b \in open : Cardinality(SendsTo(sent', b)) = 1
                /\ IdSet(heap'[last'.room].members) = IdSet(before) \cup {X}]_vars

\* A relay join into a room that had a member has just been accepted: the
\* welcome went out, then the peer_joined.
C4_Witness ==
    /\ mode = "relay" /\ last.call = "join" /\ last.res = "accepted"
    /\ Len(sent) = 2
    /\ sent[1].env.type = "welcome" /\ sent[1].env.peers # <<>>
    /\ sent[2].env.type = "peer_joined"

\* The notification of a leave in the running build.
Left(X) == IF mode = "relay" THEN PeerLeft(X) ELSE PlayerLeft(X)

\* The member list ms without the entry of X, the other entries as they were.
RECURSIVE Without(_, _)
Without(ms, X) ==
    IF ms = <<>> THEN <<>>
    ELSE (IF Head(ms).id = X THEN <<>> ELSE <<Head(ms)>>) \o Without(Tail(ms), X)

\* C5, as stated: leave(X) of a non-member changes and sends nothing; of a
\* member it removes exactly X and sends one peer_left / player_left naming X
\* to every remaining member, none to X.
C5_AsStated ==
    [][(last'.op = "call" /\ last'.call = "leave")
         => LET X == last'.c
                ms == heap[last'.room].members
                rest == IdSet(ms) \ {X}
            IN  IF X \notin IdSet(ms)
                THEN sent' = <<>> /\ heap' = heap
                ELSE /\ heap'[last'.room].members = Without(ms, X)
                     /\ \A i \in DOMAIN sent' :
                           sent'[i].env = Left(X) /\ sent'[i].to \in rest
                     /\ \A b \in rest : Cardinality(SendsTo(sent', b)) = 1]_vars

\* C5, amended: the same, the notification going to every remaining member
\* whose connection is open, and to nobody else.
C5_LeaveNotifiesOpen ==
    [][(last'.op = "call" /\ last'.call = "leave")
         => LET X == last'.c
                ms == heap[last'.room].members
                open == {b \in IdSet(ms) \ {X} : IsOpen(status, b)}
            IN  IF X \notin IdSet(ms)
                THEN sent' = <<>> /\ heap' = heap
                ELSE /\ heap'[last'.room].members = Without(ms, X)
                     /\ \A i \in DOMAIN sent' :
                           sent'[i].env = Left(X) /\ sent'[i].to \in open
                     /\ \A b \in open : Cardinality(SendsTo(sent', b)) = 1]_vars

\* A member of the authoritative Room has just left and the member that
\* remains was told.
C5_Witness ==
    /\ mode = "auth" /\ last.op = "call" /\ last.call = "leave"
    /\ last.c \notin MemberSet(heap[last.room])
    /\ Len(heap[last.room].members) = MaxPlayersPerRoom - 1
    /\ Len(sent) = 1 /\ sent[1].env = PlayerLeft(last.c)

\* C6: when the close handler of a connection leaves the room registered under
\* its room id with no member, the room is taken out of the registry unless
\* its id is "lobby"; the lobby stays registered, the same object, empty.
C6_EmptyRoomRemoved ==
    [][(last'.op = "close" /\ last'.call = "leave"
        /\ IdSet(heap[last'.room].members) \subseteq {last'.c})
         => LET rid == meta[last'.c].roomId
            IN  IF rid # "lobby"
                THEN rooms'[rid] = 0
                ELSE /\ rooms'[rid] = rooms[rid] /\ rooms'[rid] # 0
                     /\ heap'[rooms'[rid]].members = <<>>]_vars

\* The last member of the room "arena" has just disconnected and the registry
\* no longer holds the room.
C6_Witness ==
    /\ last.op = "close" /\ last.call = "leave"
    /\ meta[last.c].roomId = "arena"
    /\ rooms["arena"] = 0
    /\ heap[last.room].id = "arena"

\* The admitted calls of client c whose timestamp lies in from..to.
AdmittedIn(adm, c, from, to) ==
    {i \in DOMAIN adm[c] : adm[c][i] >= from /\ adm[c][i] <= to}

\* C7: with max = N and a clock that never runs backwards, no N + 1 admitted
\* calls of one client lie within 1000 ms of each other; a call that finds N
\* admitted calls in its trailing 1000 ms is rejected, and one that finds every
\* admitted call more than 1000 ms old is admitted.
C7_SlidingWindow ==
    [][last'.op = "allow"
         => LET c == last'.c
                recent == AdmittedIn(admitted, c, now - WindowMs, now)
            IN  /\ Cardinality(recent) >= config.maxMessages => ~last'.ok
                /\ recent = {} => last'.ok
                /\ \A i \in DOMAIN admitted'[c] :
                      Cardinality(AdmittedIn(admitted', c, admitted'[c][i],
                                             admitted'[c][i] + WindowMs))
                         <= config.maxMessages]_vars

\* A client that had used up its N calls has just been admitted once more, its
\* earlier calls being more than 1000 ms old.
C7_Witness ==
    /\ last.op = "allow" /\ last.ok
    /\ Len(admitted[last.c]) > config.maxMessages
    /\ AdmittedIn(admitted, last.c, now - WindowMs, now - 1) = {}

\* The window of client c, empty when the limiter holds none.
WindowOf(w, c) == IF c \in DOMAIN w THEN w[c] ELSE <<>>

\* The first instant at which a client with the timestamps ts (oldest first) is
\* admitted.
ReadmitAt(ts, t) ==
    IF Len(ts) < config.maxMessages THEN t
    ELSE ts[Len(ts) - config.maxMessages + 1] + WindowMs + 1

\* C8: a rejected allow(c) leaves c's window as it was but for the expired
\* timestamps, so the instant at which c is admitted again does not move; and
\* no allow(c), admitted or rejected, touches the window of another client.
C8_RejectedNotRecorded ==
    [][last'.op = "allow"
         => LET c == last'.c
                old == WindowOf(windows, c)
            IN  /\ ~last'.ok =>
                     /\ windows'[c] = SelectSeq(old, LAMBDA x : x >= now - WindowMs)
                     /\ ReadmitAt(windows'[c], now) = ReadmitAt(old, now)
                     /\ admitted' = admitted
                /\ DOMAIN windows' \ {c} = DOMAIN windows \ {c}
                /\ \A d \in DOMAIN windows \ {c} : windows'[d] = windows[d]]_vars

\* A call has just been rejected, time having passed since the client's first
\* call, while another client holds a window of its own.
C8_Witness ==
    /\ last.op = "allow" /\ ~last.ok
    /\ now > 0
    /\ Len(admitted[last.c]) > config.maxMessages
    /\ \E d \in DOMAIN windows \ {last.c} : windows[d] # <<>>

\* decodeMessage of the running build returns null for frame f.
Malformed(f) == IF mode = "relay" THEN DecodeRelay(f) = Null ELSE DecodeAuth(f) = Null

\* The handler made exactly one ws.send call: an error with this code, on c.
OneError(s, c, code) ==
    Len(s) = 1 /\ s[1].to = c /\ IsError(s[1].env, code)

\* C9: the message handler checks the rate limit before it decodes.  A frame
\* the limiter rejects, malformed or not, gets exactly one RATE_LIMITED error
\* and no Room method is called; a frame the limiter admits and decodeMessage
\* rejects gets exactly one INVALID_MESSAGE error, no Room method is called, no
\* room and no registry entry changes, and the connection is left as it was.
C9_LimitBeforeDecode ==
    [][last'.op = "message"
         => LET c == last'.c
            IN  /\ ~last'.ok =>
                     /\ OneError(sent', c, "RATE_LIMITED")
                     /\ last'.call = "none"
                     /\ heap' = heap /\ rooms' = rooms /\ status' = status
                /\ (last'.ok /\ Malformed(last'.frame)) =>
                     /\ OneError(sent', c, "INVALID_MESSAGE")
                     /\ last'.call = "none"
                     /\ heap' = heap /\ rooms' = rooms /\ status' = status
                     /\ meta' = meta /\ attached' = attached]_vars

\* A member of a relay room whose connection is open has just sent a frame that
\* is both over the limit and undecodable: the answer was RATE_LIMITED.
C9_Witness ==
    /\ mode = "relay" /\ last.op = "message" /\ ~last.ok
    /\ Malformed(last.frame)
    /\ OneError(sent, last.c, "RATE_LIMITED") /\ sent[1].ready
    /\ last.c \in MemberSet(heap[captured[last.c]])

\* C10, as stated: a frame whose type tag is hello or ping is never handed to
\* the Room, and no relay envelope goes out for it.
C10_AsStated ==
    [][(last'.op = "message" /\ last'.frame.type \in {"hello", "ping"})
         => /\ last'.call = "none"
            /\ \A i \in DOMAIN sent' : sent'[i].env.type # "relay"]_vars

\* C10, amended: a frame whose type tag is hello, or whose type tag is ping and
\* whose nonce is a string, is never handed to the Room: no relay envelope goes
\* out for it and no room that exists changes.
C10_ControlConsumed ==
    [][(last'.op = "message"
        /\ (\/ last'.frame.type = "hello"
            \/ last'.frame.type = "ping" /\ last'.frame.arg = "nonce"))
         => /\ last'.call = "none"
            /\ \A i \in DOMAIN sent' : sent'[i].env.type # "relay"
            /\ \A o \in DOMAIN heap : heap'[o] = heap[o]]_vars

\* In a relay room with two members whose connections are open, one has just
\* sent a ping with a nonce: the pong came back and nothing reached the peer.
C10_Witness ==
    /\ mode = "relay" /\ last.op = "message" /\ last.ok
    /\ last.frame.type = "ping"
    /\ sent = <<Send(last.c, Pong("nonce", now), TRUE)>>
    /\ \E b \in MemberSet(heap[captured[last.c]]) \ {last.c} : IsOpen(status, b)

\* C11: in the relay router, an admitted hello frame whose protocolVersion is a
\* number other than PROTOCOL_VERSION gets exactly one BAD_PROTOCOL error and
\* the server then closes the connection (code 1008); an admitted hello whose
\* version is PROTOCOL_VERSION sends nothing, closes nothing, and leaves the
\* connection and the room as they were.
C11_HelloVersion ==
    [][(mode = "relay" /\ last'.op = "message" /\ last'.ok
        /\ last'.frame.type = "hello")
         => LET c == last'.c
            IN  /\ last'.frame.arg = "v2" =>
                     /\ OneError(sent', c, "BAD_PROTOCOL")
                     /\ last'.close = 1008
                     /\ status'[c] = "closing"
                     /\ \A d \in Clients \ {c} : status'[d] = status[d]
                /\ last'.frame.arg = "v1" =>
                     /\ sent' = <<>> /\ last'.close = 0
                     /\ status' = status
                     /\ c \in MemberSet(heap'[captured[c]])
                /\ heap' = heap /\ rooms' = rooms]_vars

\* A member whose connection was open has just sent a hello with another
\* version: the BAD_PROTOCOL error went out and the connection is closing.
C11_Witness ==
    /\ mode = "relay" /\ last.op = "message" /\ last.frame = Frame("map", "hello", "v2")
    /\ OneError(sent, last.c, "BAD_PROTOCOL") /\ sent[1].ready
    /\ status[last.c] = "closing" /\ last.close = 1008

\* What the specification calls malformed: bytes that do not decode, a value
\* that is no keyed object, a keyed object whose type tag is absent or no string.
SpecMalformed(f) == f.body # "map" \/ f.type \in {"absent", "nonstring"}

\* C12, as stated: every frame that is undecodable, no keyed object, or a keyed
\* object without a string type tag makes decodeMessage return null, and the
\* handler answers INVALID_MESSAGE and calls no Room method.
C12_AsStated ==
    [][(last'.op = "message" /\ last'.ok /\ SpecMalformed(last'.frame))
         => /\ Malformed(last'.frame)
            /\ last'.call = "none"
            /\ OneError(sent', last'.c, "INVALID_MESSAGE")]_vars

\* C12, amended: decodeMessage returns null exactly for bytes that do not
\* decode, nil, a scalar, an array, and in the authoritative build also a bin
\* and a map without the key type; an admitted frame it returns null for gets
\* INVALID_MESSAGE and reaches no Room method.  The relay router hands every
\* other frame that is not a hello or a ping to Room.relay, a map without a
\* type tag, a map with a type tag that is no string and a bin included.
C12_DecodeSentinel ==
    [][(last'.op = "message" /\ last'.ok)
         => LET f == last'.frame
            IN  /\ Malformed(f) <=>
                     IF mode = "relay"
                     THEN f.body \in {"undecodable", "nil", "scalar", "array"}
                     ELSE f.body # "map" \/ f.type = "absent"
                /\ Malformed(f) =>
                     /\ last'.call = "none"
                     /\ OneError(sent', last'.c, "INVALID_MESSAGE")
                     /\ heap' = heap /\ rooms' = rooms
                /\ (mode = "relay" /\ ~Malformed(f) /\ f.type \notin {"hello", "ping"})
                     => last'.call = "relay"
                /\ (mode = "auth" /\ f.type = "nonstring") => last'.call = "none"]_vars

\* A member of a relay room has just sent an array: the answer was
\* INVALID_MESSAGE and nothing reached the other member, whose connection is open.
C12_Witness ==
    /\ mode = "relay" /\ last.op = "message" /\ last.ok
    /\ last.frame.body = "array"
    /\ OneError(sent, last.c, "INVALID_MESSAGE") /\ sent[1].ready
    /\ \E b \in MemberSet(heap[captured[last.c]]) \ {last.c} : IsOpen(status, b)

\* Client c is a member of some Room object of heap h.
MemberOfSome(h, c) == \E o \in DOMAIN h : c \in MemberSet(h[o])

\* The members of the room registered under rid (none when none is registered).
Registered(rid) == IF rooms[rid] = 0 THEN <<>> ELSE heap[rooms[rid]].members

\* C13, as stated: the relay router does not make a connection a member at
\* connect; the authoritative router joins it at connect or, the room being
\* full, closes it.
C13_AsStated ==
    [][last'.op = "connect"
         => IF mode = "relay"
            THEN ~MemberOfSome(heap', last'.c)
            ELSE \/ MemberOfSome(heap', last'.c)
                 \/ last'.close # 0 /\ status'[last'.c] = "closing"]_vars

\* C13, amended (the two builds the other way round): the relay router joins
\* the connection to its room at connect and, the room being full, closes it
\* with code 1013 and registers no handler, so it never becomes a member; the
\* authoritative router joins nobody at connect, and a connection becomes a
\* member only by its own join frame, which makes it one when there is room.
C13_JoinModes ==
    [][/\ last'.op = "connect" =>
            LET c == last'.c
            IN  IF mode = "relay"
                THEN IF Len(Before(last'.room)) < config.maxPlayers
                     THEN /\ c \in MemberSet(heap'[last'.room])
                          /\ status'[c] = "open" /\ attached'[c] /\ last'.close = 0
                     ELSE /\ ~MemberOfSome(heap', c)
                          /\ status'[c] = "closing" /\ ~attached'[c]
                          /\ last'.close = 1013
                ELSE /\ ~MemberOfSome(heap', c) /\ heap' = heap
                     /\ status'[c] = "open" /\ ~meta'[c].joined /\ last'.close = 0
       /\ \A c \in Clients :
            (~MemberOfSome(heap, c) /\ MemberOfSome(heap', c))
               => /\ last'.c = c
                  /\ IF mode = "relay" THEN last'.op = "connect"
                     ELSE last'.op = "message" /\ last'.frame.type = "join"
       /\ (mode = "auth" /\ last'.op = "message" /\ last'.ok
           /\ last'.frame = Frame("map", "join", "noname")
           /\ ~meta[last'.c].joined
           /\ Len(Registered(meta[last'.c].roomId)) < config.maxPlayers)
            => /\ last'.c \in MemberSet(heap'[rooms'[meta[last'.c].roomId]])
               /\ meta'[last'.c].joined]_vars

\* The relay router has just turned a connection away from a full room: close
\* code 1013, no handler, not a member.
C13_Witness ==
    /\ mode = "relay" /\ last.op = "connect" /\ last.close = 1013
    /\ ~attached[last.c] /\ ~MemberOfSome(heap, last.c)
    /\ Len(heap[last.room].members) = config.maxPlayers

\* C14: in the authoritative router (the one that waits for a join frame), a
\* frame that passes the rate limit and the decoder, is no join, and comes from a
\* connection that has not joined calls no Room method, changes no existing
\* room and adds no member anywhere; a state frame gets exactly one NOT_JOINED
\* error, any other such frame no reply at all.
C14_BeforeJoin ==
    [][(mode = "auth" /\ last'.op = "message" /\ last'.ok
        /\ ~Malformed(last'.frame) /\ last'.frame.type # "join"
        /\ ~meta[last'.c].joined)
         => /\ last'.call = "none"
            /\ \A o \in DOMAIN heap : heap'[o] = heap[o]
            /\ \A o \in DOMAIN heap' \ DOMAIN heap : heap'[o].members = <<>>
            /\ IF last'.frame.type = "state"
               THEN OneError(sent', last'.c, "NOT_JOINED")
               ELSE sent' = <<>>
            /\ meta' = meta /\ status' = status /\ ~crashed']_vars

\* While another client is a member of the room, a connection that has not
\* joined has just sent a state frame and was answered NOT_JOINED.
C14_Witness ==
    /\ mode = "auth" /\ last.op = "message" /\ last.frame.type = "state"
    /\ ~meta[last.c].joined
    /\ OneError(sent, last.c, "NOT_JOINED") /\ sent[1].ready
    /\ \E b \in Clients \ {last.c} : MemberOfSome(heap, b) /\ IsOpen(status, b)

\* C15: once the close event of a connection has been handled, whatever ended
\* the connection, its ping interval is cleared and never fires again, the rate
\* limiter holds no window for its client id, and its client id is a member of
\* no room.
C15_CloseCleansUp ==
    [][/\ \A c \in Clients :
            status'[c] = "closed"
               => /\ ~keep'[c].timer
                  /\ c \notin DOMAIN windows'
                  /\ ~MemberOfSome(heap', c)
       /\ last'.op = "keepalive" => status[last'.c] # "closed"]_vars

\* The close event of a member that the keepalive had pinged has just been
\* handled, and the member that remains in its room was told.
C15_Witness ==
    /\ last.op = "close" /\ last.call = "leave"
    /\ status[last.c] = "closed" /\ ~keep[last.c].isAlive
    /\ sent # <<>>
    /\ \E b \in Clients \ {last.c} : MemberOfSome(heap, b)

\* C16: when the ping interval of a connection fires and the ping of the
\* previous firing is still unanswered, the connection is terminated at that
\* firing and no ping is sent; when there is no unanswered ping (the first
\* firing, or the peer has answered), a ping is sent and the connection is left
\* as it was.
C16_Keepalive ==
    [][last'.op = "keepalive"
         => LET c == last'.c
            IN  IF keep[c].ping # "none"
                THEN /\ last'.res = "terminate"
                     /\ status'[c] \notin {"open", "closing"}
                     /\ keep'[c] = keep[c]
                ELSE /\ last'.res = "ping"
                     /\ status' = status
                     /\ keep'[c].ping = IF IsOpen(status, c) THEN "sent" ELSE "lost"]_vars

\* The ping interval of an open connection has just fired with the previous
\* ping unanswered: the connection was terminated.
C16_Witness ==
    /\ last.op = "keepalive" /\ last.res = "terminate"
    /\ keep[last.c].ping = "sent"
    /\ status[last.c] = "ending"

\* C17: in the authoritative build, between any two Room method calls, a room
\* has exactly one tick interval set when it has a member and none when it has
\* none, and tickInterval holds a timer exactly when one is set.
C17_TickIffMembers ==
    mode = "auth"
       => \A o \in DOMAIN heap :
             /\ heap[o].timers = (IF heap[o].members # <<>> THEN 1 ELSE 0)
             /\ heap[o].tick <=> heap[o].timers = 1

\* The last member of an authoritative room that was ticking has just left: no
\* interval is set any more.
C17_Witness ==
    /\ mode = "auth" /\ last.call = "leave"
    /\ written[last.c] = "none" /\ sent = <<>>
    /\ last.c \notin MemberSet(heap[last.room])
    /\ heap[last.room].members = <<>> /\ heap[last.room].timers = 0

\* C18: in the authoritative build every snapshot carries, for each player in
\* it, the state of the last updatePlayerState call made for that member (the
\* neutral state if none was made): a state that a later call replaced before
\* the tick is in no snapshot.
C18_LastWriteWins ==
    \A i \in DOMAIN sent :
        sent[i].env.type = "snapshot"
           => /\ last.call = "tick"
              /\ \A c \in DOMAIN sent[i].env.payload.players :
                    sent[i].env.payload.players[c].state.pose = written[c]

\* A tick that follows two updatePlayerState calls of one member with different
\* states: the snapshot it broadcast has the second one.
C18_Witness ==
    /\ mode = "auth" /\ last.call = "tick" /\ last.res = "after-rewrite"
    /\ \E i \in DOMAIN sent :
          /\ sent[i].env.type = "snapshot"
          /\ last.c \in DOMAIN sent[i].env.payload.players
          /\ sent[i].env.payload.players[last.c].state.pose = written[last.c]
          /\ written[last.c] \in RoomPoses

\* C19: a tick of an authoritative room that has members sends one snapshot to
\* every member whose connection is open and nothing to anyone else; the players
\* of the snapshot are exactly the members of the room at the tick, a member that
\* never sent a state having the neutral one; the tick changes no membership.
C19_TickSnapshot ==
    [][(mode = "auth" /\ last'.call = "tick" /\ heap[last'.room].members # <<>>)
         => LET r   == heap[last'.room]
                ids == MemberSet(r)
            IN  /\ \A c \in Clients :
                      Cardinality(SendsTo(sent', c))
                         = (IF c \in ids /\ IsOpen(status, c) THEN 1 ELSE 0)
                /\ \A i \in DOMAIN sent' :
                      /\ sent'[i].ready
                      /\ sent'[i].env.type = "snapshot"
                      /\ DOMAIN sent'[i].env.payload.players = ids
                      /\ \A c \in ids :
                            written[c] = "neutral"
                               => sent'[i].env.payload.players[c].state = NeutralState
                /\ heap'[last'.room].members = r.members]_vars

\* A tick of a full room, all connections open: each member got the snapshot,
\* one of them has written a state and the other never has, and a third client
\* is not in it.
C19_Witness ==
    /\ mode = "auth" /\ last.call = "tick" /\ Len(sent) = 2
    /\ Len(heap[last.room].members) = 2
    /\ \E c, d \in MemberSet(heap[last.room]) :
          /\ written[c] = "neutral" /\ written[d] \in RoomPoses
          /\ SendsTo(sent, c) # {} /\ SendsTo(sent, d) # {}
          /\ sent[1].env.payload.players[c].state = NeutralState
          /\ sent[1].env.payload.players[d].state.pose = written[d]
    /\ \E x \in Clients : x \notin DOMAIN sent[1].env.payload.players

\* C20: updatePlayerState(id, state) for an id that is no member of the room
\* changes nothing; for a member it puts the given state, stamped with the
\* current time, in place of that member's state and leaves the member list, the
\* display names, the other members' states and the tick timer as they were; in
\* both cases it sends nothing.
C20_UpdateEffect ==
    [][last'.call = "update"
         => LET o  == last'.room
                c  == last'.c
                st == [pose |-> last'.frame.arg, timestamp |-> now]
            IN  /\ sent' = <<>>
                /\ status' = status
                /\ DOMAIN heap' = DOMAIN heap
                /\ IF c \notin MemberSet(heap[o])
                   THEN heap' = heap
                   ELSE /\ Len(heap'[o].members) = Len(heap[o].members)
                        /\ \A i \in DOMAIN heap[o].members :
                              heap'[o].members[i]
                                 = (IF heap[o].members[i].id = c
                                    THEN [heap[o].members[i] EXCEPT !.state = st]
                                    ELSE heap[o].members[i])
                        /\ heap'[o].tick = heap[o].tick
                        /\ heap'[o].timers = heap[o].timers]_vars

\* updatePlayerState of one member of a full room whose other member has another
\* state: the caller's state is the one given, the other's is what it wrote.
C20_Witness ==
    /\ mode = "auth" /\ last.call = "update" /\ sent = <<>>
    /\ last.c \in MemberSet(heap[last.room])
    /\ Member(heap[last.room], last.c).state.pose = last.frame.arg
    /\ \E d \in MemberSet(heap[last.room]) :
          /\ d # last.c
          /\ written[d] \in RoomPoses \ {last.frame.arg}
          /\ Member(heap[last.room], d).state.pose = written[d]

\* updatePlayerState for a client that is no member of a room that has members.
C20_WitnessNonMember ==
    /\ mode = "auth" /\ last.call = "update" /\ sent = <<>>
    /\ last.c \notin MemberSet(heap[last.room])
    /\ heap[last.room].members # <<>>

\* The chat message of frame f as the client sent it (text and length), and the
\* first 500 characters of a message.
SentText(f) == IF f.arg = "longtext" THEN <<"long", 501>> ELSE <<"hi", 2>>

First500(t) == <<t[1], IF t[2] > 500 THEN 500 ELSE t[2]>>

\* C21: chat(id, text) of the authoritative Room, for a member, sends one chat
\* envelope with the sender's id and the first 500 characters of the text to
\* every member whose connection is open, the sender included, and to no one
\* else, adds one to messageCount and leaves the members as they were; for an id
\* that is no member it sends nothing and changes nothing.
C21_Chat ==
    [][last'.call = "chat"
         => LET o   == last'.room
                c   == last'.c
                env == [type |-> "chat",
                        payload |-> [id |-> c,
                                     message |-> First500(SentText(last'.frame))]]
            IN  /\ status' = status
                /\ DOMAIN heap' = DOMAIN heap
                /\ IF c \notin MemberSet(heap[o])
                   THEN sent' = <<>> /\ heap' = heap
                   ELSE /\ \A d \in Clients :
                              Cardinality(SendsTo(sent', d))
                                 = (IF d \in MemberSet(heap[o]) /\ IsOpen(status, d)
                                    THEN 1 ELSE 0)
                        /\ \A i \in DOMAIN sent' : sent'[i].ready /\ sent'[i].env = env
                        /\ heap'[o] = [heap[o] EXCEPT !.messageCount = @ + 1]]_vars

\* A member of a full room, both connections open, has sent a chat message of
\* 501 characters: both members got its first 500.
C21_Witness ==
    /\ mode = "auth" /\ last.call = "chat" /\ last.frame.arg = "longtext"
    /\ Len(heap[last.room].members) = 2 /\ Len(sent) = 2
    /\ SendsTo(sent, last.c) # {}
    /\ \E d \in Clients \ {last.c} : SendsTo(sent, d) # {}
    /\ sent[1].env.payload.message = <<"long", 500>>
    /\ heap[last.room].messageCount > 0

\* C22, as stated: every ws.send call a handler makes (welcome, notifications,
\* relay, chat, snapshot, pong and the error envelopes of the Room and of the
\* router) is made on a connection whose readyState is OPEN.
C22_AsStated == \A i \in DOMAIN sent : sent[i].ready

\* The part of C22 that the guarded sends of the Room satisfy: every envelope
\* that is no error and no pong was sent to a connection that was open.
C22_RoomSendsGuarded ==
    \A i \in DOMAIN sent : sent[i].env.type \notin {"error", "pong"} => sent[i].ready

\* A connection the relay router is closing (after a hello of another protocol
\* version) sent one more frame, and the router called ws.send for its error
\* envelope although the connection was not open.
C22_Witness ==
    /\ last.op = "message" /\ status[last.c] = "closing"
    /\ \E i \in DOMAIN sent :
          sent[i].to = last.c /\ ~sent[i].ready /\ sent[i].env.type = "error"

\* C23, as stated: no message handler ends with an uncaught exception, whatever
\* frame it was given; the process keeps running.
C23_AsStated == [][last'.op = "message" => ~crashed']_vars

\* The authoritative router was given {type: "join"} without payload by a
\* connection that had not joined, while another client was a member of a room:
\* reading payload.displayName threw and the process is gone.
C23_Witness ==
    /\ crashed /\ mode = "auth" /\ last.op = "message"
    /\ last.frame.type = "join" /\ last.frame.arg = "nopayload"
    /\ ~meta[last.c].joined
    /\ \E d \in Clients \ {last.c} : MemberOfSome(heap, d) /\ status[d] = "open"


\* The relay router turned a connection away from a full room, and that peer
\* then sent bytes that are no valid frame: 'error' was emitted on a socket
\* without a listener and the process is gone, with members in the room.
C23_WitnessSocketError ==
    /\ crashed /\ mode = "relay" /\ last.op = "error"
    /\ ~attached[last.c] /\ status[last.c] = "closing"
    /\ \E o \in DOMAIN heap : heap[o].members # <<>>

\* C24: a frame the rate limiter rejects gets one RATE_LIMITED error and leaves
\* the connection, its joined flag and every room as they were; a join frame
\* the room rejects as full leaves the connection as it was and not joined; and
\* a join frame with a payload that the limiter admits, from a connection not
\* yet joined, while the room has a free slot, is accepted, also when an earlier
\* join of that connection was rejected.
C24_AdmissionErrors ==
    [][last'.op = "message"
         => LET c == last'.c
            IN  /\ ~last'.ok
                     => /\ OneError(sent', c, "RATE_LIMITED")
                        /\ status' = status /\ meta' = meta
                        /\ heap' = heap /\ rooms' = rooms
                        /\ last'.close = 0 /\ last'.call = "none"
                /\ (last'.call = "join" /\ last'.res = "rejected")
                     => /\ OneError(sent', c, "ROOM_FULL")
                        /\ status' = status /\ last'.close = 0
                        /\ ~meta'[c].joined /\ ~MemberOfSome(heap', c)
                /\ (mode = "auth" /\ last'.ok /\ ~meta[c].joined
                      /\ last'.frame.type = "join" /\ last'.frame.arg # "nopayload"
                      /\ Len(Registered(meta[c].roomId)) < config.maxPlayers)
                     => /\ last'.call = "join" /\ last'.res = "accepted"
                        /\ meta'[c].joined
                        /\ c \in MemberSet(heap'[last'.room])
                        /\ status' = status]_vars

\* A connection whose join frame was answered ROOM_FULL has sent join again
\* after a member left, and is now a member.
C24_Witness ==
    /\ mode = "auth" /\ last.op = "message" /\ last.call = "join"
    /\ last.res = "accepted" /\ refused[last.c]
    /\ status[last.c] = "open" /\ meta[last.c].joined
    /\ last.c \in MemberSet(heap[last.room])

\* A member of a room has had a frame rejected by the rate limiter: it is still
\* open and still a member.
C24_WitnessLimited ==
    /\ last.op = "message" /\ ~last.ok
    /\ status[last.c] = "open" /\ MemberOfSome(heap, last.c)

\* C25: a handler that calls a method of Room object A (join, leave, relay,
\* chat, updatePlayerState, tick, destroy) leaves the members, their stored
\* states and the tick timer of every other Room object as they were, and every
\* envelope it sends other than an error to the caller goes to a member of A
\* that is a member of no other Room object.
C25_Isolation ==
    [][last'.room # 0
         => LET A == last'.room
            IN  /\ \A B \in DOMAIN heap \ {A} :
                      /\ heap'[B].members = heap[B].members
                      /\ heap'[B].tick = heap[B].tick
                      /\ heap'[B].timers = heap[B].timers
                /\ \A i \in DOMAIN sent' :
                      sent'[i].env.type # "error"
                         => /\ sent'[i].to \in MemberSet(heap'[A])
                            /\ \A B \in DOMAIN heap' \ {A} :
                                  sent'[i].to \notin MemberSet(heap'[B])]_vars

\* Two rooms with members, and a connection that is open and in neither: a
\* handler of one room has just sent an envelope to a member of that room.
C25_Witness ==
    /\ last.room # 0 /\ sent # <<>>
    /\ sent[1].env.type # "error" /\ sent[1].to \in MemberSet(heap[last.room])
    /\ \E B \in DOMAIN heap \ {last.room} : heap[B].members # <<>>

\* The same with a connected client that has joined no room (authoritative).
C25_WitnessNotJoined ==
    /\ mode = "auth" /\ last.room # 0 /\ sent # <<>>
    /\ sent[1].env.type # "error"
    /\ \E c \in Clients : status[c] = "open" /\ ~MemberOfSome(heap, c)

\* The Room objects the registry holds.
Live == {rooms[rid] : rid \in RoomIds} \ {0}

\* C26: no Room object ever has a negative number of intervals set (a second
\* stop clears nothing), a Room object the registry has dropped has no member
\* and no interval set, so that no tick of it can fire; the close handler that
\* drops a room (last leave, then destroy) leaves it so; and a Room object
\* constructed under an id, used before or not, holds at the end of the handler
\* that constructed it at most the connection of that handler and, in the
\* authoritative build, an interval exactly if it holds that connection.
C26_NoTimerLeak ==
    [][/\ \A o \in DOMAIN heap' :
             /\ heap'[o].timers >= 0
             /\ o \notin {rooms'[rid] : rid \in RoomIds}
                  => heap'[o].members = <<>> /\ heap'[o].timers = 0 /\ ~heap'[o].tick
       /\ \A rid \in RoomIds :
             (rooms[rid] # 0 /\ rooms'[rid] = 0)
                => /\ last'.op = "close"
                   /\ heap'[rooms[rid]]
                        = [heap[rooms[rid]] EXCEPT !.members = <<>>, !.tick = FALSE,
                                                   !.timers = 0]
       /\ \A o \in DOMAIN heap' \ DOMAIN heap :
             /\ MemberSet(heap'[o]) \subseteq {last'.c}
             /\ heap'[o].timers
                  = (IF mode = "auth" /\ heap'[o].members # <<>> THEN 1 ELSE 0)
             /\ heap'[o].tick <=> heap'[o].timers = 1
             /\ \A q \in DOMAIN heap : heap'[q] = heap[q]]_vars

\* The authoritative room "arena" was dropped after its last member left and
\* has been constructed again: the tick of the new object has just fired, and
\* the old object has no interval.
C26_Witness ==
    /\ mode = "auth" /\ last.op = "tick" /\ sent # <<>>
    /\ heap[last.room].id = "arena" /\ rooms["arena"] = last.room
    /\ \E q \in DOMAIN heap \ {last.room} :
          /\ heap[q].id = "arena" /\ q \notin Live
          /\ heap[q].timers = 0 /\ heap[q].members = <<>>

\* C27: cleanup() deletes exactly the windows with no timestamp in the last
\* 1000 ms and keeps of the others the timestamps in the last 1000 ms; a second
\* cleanup() at the same instant changes nothing; and whatever cleanup() calls
\* were made, what allow(c) returns now or later is decided by the admitted
\* calls of c alone: true exactly if fewer than max of them lie in the 1000 ms
\* before the call.
C27_CleanupTransparent ==
    [][/\ \A c \in Clients, d \in {0} \cup RLSteps :
             status'[c] = "open"
                => (AllowOk(windows', c, now' + d)
                      <=> Cardinality(AdmittedIn(admitted', c, now' + d - WindowMs,
                                                 now' + d)) < config.maxMessages)
       /\ last'.op = "cleanup"
             => /\ DOMAIN windows'
                     = {c \in DOMAIN windows :
                          \E i \in DOMAIN windows[c] : windows[c][i] >= now - WindowMs}
                /\ \A c \in DOMAIN windows' :
                      windows'[c] = SelectSeq(windows[c], LAMBDA x : x >= now - WindowMs)
                /\ CleanupWindows(windows', now') = windows'
                /\ admitted' = admitted]_vars

\* cleanup() has just deleted the window of an open client whose calls are all
\* more than 1000 ms old and kept, without its expired timestamp, the window of
\* another client.
C27_Witness ==
    /\ last.op = "cleanup"
    /\ \E c, d \in Clients :
          /\ status[c] = "open" /\ admitted[c] # <<>> /\ c \notin DOMAIN windows
          /\ d \in DOMAIN windows /\ Len(windows[d]) < Len(admitted[d])
          /\ admitted[d][1] < now - WindowMs

\* C28, as stated: in either build, when the intervals have fired for the
\* period that just ended, a registered room that has counted no message for two
\* refresh periods reports messagesPerSecond 0, members or not.
C28_AsStated ==
    \A rid \in RoomIds :
        (rooms[rid] # 0 /\ ~RefreshDue /\ now - counted[rid] >= 2 * RefreshMs)
           => heap[rooms[rid]].messagesPerSecond = 0

\* The part of C28 that holds: the relay router's interval recomputes the gauge
\* of every registered room each period, so the statement holds in that build.
C28_RelayRefreshed == mode = "relay" => C28_AsStated

\* The authoritative lobby counted a message, its tick computed the gauge, and
\* its last member left: two periods later it still reports that gauge.
C28_Witness ==
    /\ mode = "auth" /\ rooms["lobby"] # 0 /\ ~RefreshDue
    /\ heap[rooms["lobby"]].members = <<>> /\ heap[rooms["lobby"]].timers = 0
    /\ counted["lobby"] >= 0 /\ now - counted["lobby"] >= 2 * RefreshMs
    /\ heap[rooms["lobby"]].messagesPerSecond > 0

\* C29, as stated: after every handler, every registered room other than
\* "lobby" has at least one member.
C29_AsStated ==
    \A rid \in RoomIds \ {"lobby"} :
        rooms[rid] # 0 => heap[rooms[rid]].members # <<>>

\* C29, corrected: after every handler, every registered room other than
\* "lobby" has a member or, in the authoritative build, a connection to it
\* whose close handler has not run yet (and will drop the room if it is still
\* empty then); in the relay build it has a member.
C29_NoOrphanRoom ==
    \A rid \in RoomIds \ {"lobby"} :
        rooms[rid] # 0
           => \/ heap[rooms[rid]].members # <<>>
              \/ /\ mode = "auth"
                 /\ \E c \in Clients :
                       /\ attached[c] /\ status[c] # "closed"
                       /\ meta[c].roomId = rid /\ ~meta[c].joined

\* A connection to /ws/arena of the authoritative build has sent a state frame
\* before joining: the handler created the room, answered NOT_JOINED, and the
\* room is registered with no member.
C29_Witness ==
    /\ mode = "auth" /\ last.op = "message" /\ last.frame.type = "state"
    /\ meta[last.c].roomId = "arena" /\ ~meta[last.c].joined
    /\ rooms["arena"] # 0 /\ heap[rooms["arena"]].members = <<>>
    /\ OneError(sent, last.c, "NOT_JOINED")


\* C30: in the relay build every member whose connection is open has a
\* consistent view of its room: it got its welcome before any other envelope
\* and only once, no id was announced to it as joined while it knew the id as
\* present or as left twice, and the welcome's peers plus the ids announced
\* as joined minus the ids announced as left are the room's members other than
\* itself.
C30_ConsistentView ==
    mode = "relay" =>
        \A o \in DOMAIN heap : \A c \in MemberSet(heap[o]) :
            status[c] = "open" =>
                /\ view[c].welcomed
                /\ ~view[c].bad
                /\ (view[c].peers \cup view[c].joined) \ view[c].left
                      = MemberSet(heap[o]) \ {c}

\* A relay member that was welcomed into a room with a peer, and has since seen
\* that peer leave and another one join.
C30_Witness ==
    /\ mode = "relay"
    /\ \E o \in DOMAIN heap : \E c \in MemberSet(heap[o]) :
          /\ status[c] = "open"
          /\ view[c].peers # {}
          /\ view[c].left # {}
          /\ view[c].joined # {}
          /\ MemberSet(heap[o]) \ {c} # {}


\* C31, as stated: once the relay router has called ws.close(1008) on a
\* connection (the only way a connection with a message handler gets to
\* CLOSING in the relay build), no later frame of that connection, handled
\* before its close event, makes the router call room.relay or send a pong.
C31_AsStated ==
    [][(mode = "relay" /\ last'.op = "message" /\ status[last'.c] = "closing")
          => /\ last'.call # "relay"
             /\ \A i \in DOMAIN sent' : sent'[i].env.type \notin {"relay", "pong"}]_vars

\* In the relay build a connection with a message handler is CLOSING only
\* because the router called ws.close(1008) on it in the handler that just
\* ran or in an earlier one.
C31_ClosingIsMismatch ==
    [][(mode = "relay" /\ last'.op = "message"
          /\ status[last'.c] = "open" /\ status'[last'.c] = "closing")
          => last'.close = 1008 /\ last'.frame.type = "hello"]_vars

\* The part of C31 that holds: no pong reaches the connection the router is
\* closing; the ws.send of the pong is made on a socket that is not open.
C31_NoPongDelivered ==
    [][(mode = "relay" /\ last'.op = "message" /\ status[last'.c] = "closing")
          => \A i \in DOMAIN sent' : sent'[i].env.type = "pong" => ~sent'[i].ready]_vars

\* A connection the relay router was closing for its protocol version sent a
\* game frame before the close event, and an open peer was sent it as a relay
\* envelope.
C31_Witness ==
    /\ mode = "relay" /\ last.op = "message" /\ last.call = "relay"
    /\ status[last.c] = "closing" /\ last.frame.type = "move"
    /\ \E i \in DOMAIN sent :
          /\ sent[i].to # last.c /\ sent[i].ready
          /\ sent[i].env = RelayEnv(last.c, sent[i].env.data)
          /\ sent[i].env.type = "relay"

\* The same connection sent a ping with a string nonce instead, and the router
\* called ws.send for the pong on the socket it was closing.
C31_WitnessPong ==
    /\ mode = "relay" /\ last.op = "message" /\ status[last.c] = "closing"
    /\ \E i \in DOMAIN sent :
          sent[i].to = last.c /\ sent[i].env.type = "pong" /\ ~sent[i].ready


\* C32: whenever the relay router routes a frame of a connection, the Room
\* object the connection captured at connect time is the one registered under
\* the connection's room id, and the connection is a member of it: no frame is
\* relayed through a Room that was discarded from the registry.
C32_CapturedIsRegistered ==
    [][(mode = "relay" /\ last'.op = "message")
          => /\ captured[last'.c] # 0
             /\ captured[last'.c] = rooms[meta[last'.c].roomId]
             /\ last'.room = rooms'[meta[last'.c].roomId]
             /\ last'.c \in MemberSet(heap[captured[last'.c]])]_vars

\* A frame was relayed through the Room registered under a room id under which
\* an earlier Room had been registered and, once empty, discarded.
C32_Witness ==
    /\ mode = "relay" /\ last.op = "message" /\ last.call = "relay"
    /\ last.room = captured[last.c]
    /\ \E o \in DOMAIN heap :
          /\ o # captured[last.c]
          /\ heap[o].id = heap[captured[last.c]].id
          /\ rooms[heap[o].id] = captured[last.c]

====
